---- MODULE Spec2Model ----
(***************************************************************************)
(* Model of the config-engine core: the in-memory versioned repository     *)
(* (internal/repository/repository.go), the schema validator               *)
(* (internal/validation/validator.go) and the config service               *)
(* (internal/service/service.go), run by concurrent request goroutines.    *)
(*                                                                         *)
(* Go values with reference semantics are modelled as follows.             *)
(*  - A *models.Config is a record; the one pointer the repository shares  *)
(*    with a caller (r.configs[name] = config) is tracked by `aliased`.    *)
(*  - A map[string]interface{} is a value [kind |-> "map", val |-> f];     *)
(*    a nil map is [kind |-> "nil"].                                       *)
(*  - A slice ([]interface{}) is a reference [kind |-> "arr", val |-> a]   *)
(*    into the heap `arrs`; copying the reference shares the elements.     *)
(***************************************************************************)
EXTENDS Integers, Sequences, FiniteSets, TLC

VARIABLES
    configs,    \* r.configs: name -> latest Config object
    versions,   \* r.versions: name -> list of ConfigVersion
    schemas,    \* v.schemas: config type -> compiled schema
    mu,         \* r.mu: [w |-> write holder or "none", r |-> set of read holders]
    arrs,       \* heap of slices: address -> sequence of element values
    now,        \* the clock time.Now() reads
    pc,         \* per goroutine: "idle", "lock", "body", "store", "commit"
    op,         \* per goroutine: the operation it runs and its arguments
    call,       \* per goroutine: the repository method it is in
    cfg,        \* per goroutine: the *models.Config it built and passes down
    tmp,        \* per goroutine: the ConfigVersion fetched by GetVersion
    ret,        \* per goroutine: what its last operation returned
    aliased,    \* per goroutine: the Config it holds is the object r.configs points to
    hist,       \* history: name -> the successful writes since the name was created
    seen,       \* per caller: name -> the highest version and count it has read
    resp        \* per goroutine: the HTTP response its handler has written

vars == <<configs, versions, schemas, mu, arrs, now, pc, op, call, cfg, tmp, ret,
          aliased, hist, seen, resp>>

(***************************************************************************)
(* Bounds of the model.                                                    *)
(***************************************************************************)
MaxVersion == 3     \* revisions a name may reach
MaxClock == 2       \* last instant of the clock (instants 1..MaxClock)
MaxArrays == 1      \* slices the callers may allocate

Procs == {"p1", "p2"}

(***************************************************************************)
(* Values: JSON-like documents.                                            *)
(***************************************************************************)
IntV(n) == [kind |-> "int", val |-> n]
BoolV(b) == [kind |-> "bool", val |-> b]
StrV(s) == [kind |-> "str", val |-> s]
FloatV(n) == [kind |-> "float", val |-> n]    \* a float64; val counts tenths
MapV(f) == [kind |-> "map", val |-> f]
ArrV(a) == [kind |-> "arr", val |-> a]
NilData == [kind |-> "nil", val |-> 0]

Pay1 == MapV([max_limit |-> IntV(1000), enabled |-> BoolV(TRUE)])
Pay2 == MapV([max_limit |-> IntV(2000), enabled |-> BoolV(FALSE)])
PayMissing == MapV([max_limit |-> IntV(1000)])
PayV2 == MapV([max_limit |-> IntV(1000), enabled |-> BoolV(TRUE), currency |-> StrV("USD")])
\* a document with a map nested in a map and a map nested in a slice at address a
Doc(a) == MapV([name |-> StrV("x"), opts |-> MapV([k |-> IntV(1)]), items |-> ArrV(a)])
DocItems == <<MapV([k |-> IntV(1)])>>

\* models.Config and models.ConfigVersion
NoConfig == [Name |-> "", Type |-> "", Version |-> 0, Data |-> NilData,
             CreatedAt |-> 0, UpdatedAt |-> 0]
NoVersion == [Version |-> 0, Data |-> NilData, CreatedAt |-> 0]

NoErr == "nil"
NoRet == [err |-> "none", field |-> "", msg |-> <<>>, config |-> NoConfig,
          version |-> NoVersion, versions |-> <<>>, value |-> <<>>]
\* no response written yet; Error and Details are models.ErrorResponse's fields
NoResp == [status |-> 0, Error |-> <<>>, Details |-> <<>>]

NoOp == [kind |-> "none", name |-> "", type |-> "", data |-> NilData,
         hasVersion |-> FALSE, version |-> 0]

(***************************************************************************)
(* Repository helpers.                                                     *)
(***************************************************************************)
\* copyData: fresh maps for maps nested in maps; every other value, a slice
\* included, is assigned as it is (the slice reference is shared).
RECURSIVE copyData(_)
copyData(data) ==
    IF data.kind = "nil" THEN data
    ELSE MapV([k \in DOMAIN data.val |->
                 IF data.val[k].kind = "map" THEN copyData(data.val[k])
                 ELSE data.val[k]])

\* (mutant) the map assignment overwrites every entry of the map
PutAll(m, k, v) == [x \in DOMAIN m \cup {k} |-> v]

Put(m, k, v) == [x \in DOMAIN m \cup {k} |-> IF x = k THEN v ELSE m[x]]

(***************************************************************************)
(* Validator (internal/validation/validator.go).  A compiled schema is     *)
(* the subset of JSON Schema the repository uses: an object with typed     *)
(* properties, a required list and the additionalProperties flag.          *)
(***************************************************************************)
\* (mutant) undeclared fields are let through
PaymentSchemaOpen == [props |-> [max_limit |-> "integer", enabled |-> "boolean"],
                      required |-> {"max_limit", "enabled"}, additional |-> TRUE]

PaymentSchema == [props |-> [max_limit |-> "integer", enabled |-> "boolean"],
                  required |-> {"max_limit", "enabled"}, additional |-> FALSE]
CustomSchema == [props |-> [name |-> "string"], required |-> {"name"},
                 additional |-> TRUE]

\* a later definition of payment_config: a currency is required as well
PaymentSchemaV2 == [props |-> [max_limit |-> "integer", enabled |-> "boolean",
                               currency |-> "string"],
                    required |-> {"max_limit", "enabled", "currency"},
                    additional |-> FALSE]

\* NewValidator: only payment_config is registered
NewValidator == [payment_config |-> PaymentSchema]

\* json.Marshal, then the schema engine's decoding: an int and a float64
\* both become a JSON number (val in tenths); a float64 of integral value is
\* written without a fraction, so nothing tells it from an int afterwards
RECURSIVE Marshal(_)
Marshal(v) ==
    CASE v.kind = "int" -> [kind |-> "num", val |-> 10 * v.val]
      [] v.kind = "float" -> [kind |-> "num", val |-> v.val]
      [] v.kind = "map" -> MapV([k \in DOMAIN v.val |-> Marshal(v.val[k])])
      [] OTHER -> v

\* the "type" keyword on a decoded JSON value
TypeOk(t, v) ==
    CASE t = "integer" -> v.kind = "num" /\ v.val % 10 = 0
      [] t = "number" -> v.kind = "num"
      [] t = "boolean" -> v.kind = "bool"
      [] t = "string" -> v.kind = "str"
      [] OTHER -> TRUE

\* schema.Validate on the marshalled data: type object, required,
\* properties, additionalProperties
SchemaAccepts(schema, data) ==
    LET doc == Marshal(data)
    IN /\ doc.kind = "map"
       /\ schema.required \subseteq DOMAIN doc.val
       /\ \A k \in DOMAIN doc.val :
             IF k \in DOMAIN schema.props THEN TypeOk(schema.props[k], doc.val[k])
             ELSE schema.additional

HasSchema(configType) == configType \in DOMAIN schemas

\* Validate: TRUE iff it returns nil
Validate(configType, data) ==
    /\ configType \in DOMAIN schemas
    /\ SchemaAccepts(schemas[configType], data)

(***************************************************************************)
(* Repository (internal/repository/repository.go): the code each method    *)
(* runs while it holds r.mu.                                               *)
(***************************************************************************)
\* (mutant) the update timestamp is not set
CreateStampNoUpdatedAt(config, t) ==
    [config EXCEPT !.Version = 1, !.CreatedAt = t]

\* Create, lines 45-47
CreateStamp(config, t) ==
    [config EXCEPT !.Version = 1, !.CreatedAt = t, !.UpdatedAt = t]

\* Create, lines 53-58
CreateVersions(config) ==
    <<[Version |-> config.Version, Data |-> copyData(config.Data),
       CreatedAt |-> config.CreatedAt]>>

\* (mutant) the version is counted from the caller's Config, not the stored one
UpdateStampFromCaller(existing, config, t) ==
    [config EXCEPT !.Version = config.Version + 1,
                   !.CreatedAt = existing.CreatedAt, !.UpdatedAt = t]

\* (mutant) the creation timestamp is taken anew
UpdateStampNewCreatedAt(existing, config, t) ==
    [config EXCEPT !.Version = existing.Version + 1,
                   !.CreatedAt = t, !.UpdatedAt = t]

\* Update, lines 90-92
UpdateStamp(existing, config, t) ==
    [config EXCEPT !.Version = existing.Version + 1,
                   !.CreatedAt = existing.CreatedAt, !.UpdatedAt = t]

\* (mutant) the new revision replaces the last one
UpdateVersionsInPlace(list, config) ==
    [list EXCEPT ![Len(list)] = [Version |-> config.Version,
                                 Data |-> copyData(config.Data),
                                 CreatedAt |-> config.UpdatedAt]]

\* (mutant) the new revision is stamped with the creation time of the name
UpdateVersionsCreatedAt(list, config) ==
    Append(list, [Version |-> config.Version, Data |-> copyData(config.Data),
                  CreatedAt |-> config.CreatedAt])

\* Update, lines 98-103
UpdateVersions(list, config) ==
    Append(list, [Version |-> config.Version, Data |-> copyData(config.Data),
                  CreatedAt |-> config.UpdatedAt])

\* Get, lines 68-76
GetResult(name) ==
    IF name \notin DOMAIN configs
    THEN [err |-> "ConfigNotFoundError", config |-> NoConfig]
    ELSE [err |-> NoErr,
          config |-> [configs[name] EXCEPT !.Data = copyData(configs[name].Data)]]

\* (mutant) the bound check refuses the highest revision
GetVersionResultOffByOne(name, version) ==
    IF name \notin DOMAIN versions
    THEN [err |-> "ConfigNotFoundError", version |-> NoVersion]
    ELSE IF version < 1 \/ version >= Len(versions[name])
    THEN [err |-> "VersionNotFoundError", version |-> NoVersion]
    ELSE [err |-> NoErr,
          version |-> [versions[name][version] EXCEPT
                          !.Data = copyData(versions[name][version].Data)]]

\* GetVersion, lines 113-125
GetVersionResult(name, version) ==
    IF name \notin DOMAIN versions
    THEN [err |-> "ConfigNotFoundError", version |-> NoVersion]
    ELSE IF version < 1 \/ version > Len(versions[name])
    THEN [err |-> "VersionNotFoundError", version |-> NoVersion]
    ELSE [err |-> NoErr,
          version |-> [versions[name][version] EXCEPT
                          !.Data = copyData(versions[name][version].Data)]]

\* (mutant) the copy loop leaves the last revision out
ListVersionsResultShort(name) ==
    IF name \notin DOMAIN versions
    THEN [err |-> "ConfigNotFoundError", versions |-> <<>>]
    ELSE [err |-> NoErr,
          versions |-> [i \in 1..(Len(versions[name]) - 1) |->
                          [Version |-> versions[name][i].Version,
                           Data |-> copyData(versions[name][i].Data),
                           CreatedAt |-> versions[name][i].CreatedAt]]]

\* (mutant) the newest revision comes first
ListVersionsResultNewestFirst(name) ==
    IF name \notin DOMAIN versions
    THEN [err |-> "ConfigNotFoundError", versions |-> <<>>]
    ELSE [err |-> NoErr,
          versions |-> [i \in 1..Len(versions[name]) |->
                          LET v == versions[name][Len(versions[name]) + 1 - i]
                          IN [Version |-> v.Version, Data |-> copyData(v.Data),
                              CreatedAt |-> v.CreatedAt]]]

\* ListVersions, lines 133-148
ListVersionsResult(name) ==
    IF name \notin DOMAIN versions
    THEN [err |-> "ConfigNotFoundError", versions |-> <<>>]
    ELSE [err |-> NoErr,
          versions |-> [i \in 1..Len(versions[name]) |->
                          [Version |-> versions[name][i].Version,
                           Data |-> copyData(versions[name][i].Data),
                           CreatedAt |-> versions[name][i].CreatedAt]]]

\* Exists, lines 156-157
ExistsResult(name) == name \in DOMAIN configs

RECURSIVE TotalVersions(_)
TotalVersions(names) ==
    IF names = {} THEN 0
    ELSE LET n == CHOOSE x \in names : TRUE
         IN Len(versions[n]) + TotalVersions(names \ {n})

\* Stats, lines 192-200: <<total_configs, total_versions>>
StatsResult == <<Cardinality(DOMAIN configs), TotalVersions(DOMAIN versions)>>

(***************************************************************************)
(* Goroutine bookkeeping.                                                  *)
(***************************************************************************)
\* the operation is over: (result, err) goes back to the caller
Done(err, field, c, v, vs) ==
    [pc |-> "idle", call |-> "none", cfg |-> NoConfig, tmp |-> NoVersion,
     ret |-> [err |-> err, field |-> field, msg |-> <<>>, config |-> c, version |-> v,
              versions |-> vs, value |-> <<>>]]

Fail(err, field) == Done(err, field, NoConfig, NoVersion, <<>>)

\* &models.ValidationError{Field: field, Message: msg}
Invalid(field, msg) == [Fail("ValidationError", field) EXCEPT !.ret.msg = msg]

\* the operation goes on with a repository call
Goto(method, c, v) ==
    [pc |-> "lock", call |-> method, cfg |-> c, tmp |-> v, ret |-> NoRet]

SetProc(p, s) ==
    /\ pc' = [pc EXCEPT ![p] = s.pc]
    /\ call' = [call EXCEPT ![p] = s.call]
    /\ cfg' = [cfg EXCEPT ![p] = s.cfg]
    /\ tmp' = [tmp EXCEPT ![p] = s.tmp]
    /\ ret' = [ret EXCEPT ![p] = s.ret]

IsWrite(method) == method \in {"Create", "Update", "Clear"}

(***************************************************************************)
(* Config service (internal/service/service.go): what each operation does  *)
(* between two repository calls.                                           *)
(***************************************************************************)
\* (mutant) the data is not validated against the schema
CreateConfigBeginNoValidate(name, type, data) ==
    IF name = "" THEN Invalid("name", <<"name is required">>)
    ELSE IF type = "" THEN Invalid("type", <<"type is required">>)
    ELSE IF data.kind = "nil" THEN Invalid("data", <<"data is required">>)
    ELSE IF ~HasSchema(type) THEN Invalid("type", <<"unknown config type: ", type>>)
    ELSE Goto("Create", [NoConfig EXCEPT !.Name = name, !.Type = type, !.Data = data],
              NoVersion)

\* (mutant) the type is not looked up before the data is validated
CreateConfigBeginNoHasSchema(name, type, data) ==
    IF name = "" THEN Invalid("name", <<"name is required">>)
    ELSE IF type = "" THEN Invalid("type", <<"type is required">>)
    ELSE IF data.kind = "nil" THEN Invalid("data", <<"data is required">>)
    ELSE IF ~Validate(type, data) THEN Fail("SchemaValidationError", "")
    ELSE Goto("Create", [NoConfig EXCEPT !.Name = name, !.Type = type, !.Data = data],
              NoVersion)

\* CreateConfig, lines 27-52: up to the call of repo.Create
CreateConfigBegin(name, type, data) ==
    IF name = "" THEN Invalid("name", <<"name is required">>)
    ELSE IF type = "" THEN Invalid("type", <<"type is required">>)
    ELSE IF data.kind = "nil" THEN Invalid("data", <<"data is required">>)
    ELSE IF ~HasSchema(type) THEN Invalid("type", <<"unknown config type: ", type>>)
    ELSE IF ~Validate(type, data) THEN Fail("SchemaValidationError", "")
    ELSE Goto("Create", [NoConfig EXCEPT !.Name = name, !.Type = type, !.Data = data],
              NoVersion)

\* CreateConfig, lines 52-56
CreateConfigReturn(p, err, c) ==
    IF err # NoErr THEN Fail(err, "") ELSE Done(NoErr, "", c, NoVersion, <<>>)

\* GetConfig, lines 61-67 and 90
GetConfigBegin(name, hasVersion) ==
    IF name = "" THEN Invalid("name", <<"name is required">>)
    ELSE IF hasVersion THEN Goto("GetVersion", NoConfig, NoVersion)
    ELSE Goto("Get", NoConfig, NoVersion)

\* GetConfig, lines 67-73
GetConfigAfterGetVersion(p, err, v) ==
    IF err # NoErr THEN Fail(err, "") ELSE Goto("Get", NoConfig, v)

\* (mutant) the response carries the latest record's update timestamp
GetConfigAfterGetLatestStamp(p, err, c) ==
    IF ~op[p].hasVersion
    THEN (IF err # NoErr THEN Fail(err, "") ELSE Done(NoErr, "", c, NoVersion, <<>>))
    ELSE IF err # NoErr THEN Fail(err, "")
    ELSE Done(NoErr, "",
              [Name |-> op[p].name, Type |-> c.Type, Version |-> tmp[p].Version,
               Data |-> tmp[p].Data, CreatedAt |-> c.CreatedAt,
               UpdatedAt |-> c.UpdatedAt],
              NoVersion, <<>>)

\* GetConfig, lines 73-86 (a version was asked for) and line 90 (latest)
GetConfigAfterGet(p, err, c) ==
    IF ~op[p].hasVersion
    THEN (IF err # NoErr THEN Fail(err, "") ELSE Done(NoErr, "", c, NoVersion, <<>>))
    ELSE IF err # NoErr THEN Fail(err, "")
    ELSE Done(NoErr, "",
              [Name |-> op[p].name, Type |-> c.Type, Version |-> tmp[p].Version,
               Data |-> tmp[p].Data, CreatedAt |-> c.CreatedAt,
               UpdatedAt |-> tmp[p].CreatedAt],
              NoVersion, <<>>)

\* (mutant) the store is consulted before the request is checked for data
UpdateConfigBeginStoreFirst(name, data) ==
    IF name = "" THEN Invalid("name", <<"name is required">>)
    ELSE Goto("Get", NoConfig, NoVersion)

\* UpdateConfig, lines 95-105
UpdateConfigBegin(name, data) ==
    IF name = "" THEN Invalid("name", <<"name is required">>)
    ELSE IF data.kind = "nil" THEN Invalid("data", <<"data is required">>)
    ELSE Goto("Get", NoConfig, NoVersion)

\* (mutant) the new Config is built without the existing type
UpdateConfigAfterGetNoType(p, err, existing) ==
    IF err # NoErr THEN Fail(err, "")
    ELSE IF ~Validate(existing.Type, op[p].data) THEN Fail("SchemaValidationError", "")
    ELSE Goto("Update",
              [NoConfig EXCEPT !.Name = op[p].name, !.Data = op[p].data],
              NoVersion)

\* (mutant) the new data is not validated
UpdateConfigAfterGetNoValidate(p, err, existing) ==
    IF err # NoErr THEN Fail(err, "")
    ELSE Goto("Update",
              [NoConfig EXCEPT !.Name = op[p].name, !.Type = existing.Type,
                               !.Data = op[p].data],
              NoVersion)

\* UpdateConfig, lines 105-122
UpdateConfigAfterGet(p, err, existing) ==
    IF err # NoErr THEN Fail(err, "")
    ELSE IF ~Validate(existing.Type, op[p].data) THEN Fail("SchemaValidationError", "")
    ELSE Goto("Update",
              [NoConfig EXCEPT !.Name = op[p].name, !.Type = existing.Type,
                               !.Data = op[p].data],
              NoVersion)

\* UpdateConfig, lines 122-126
UpdateConfigReturn(p, err, c) ==
    IF err # NoErr THEN Fail(err, "") ELSE Done(NoErr, "", c, NoVersion, <<>>)

\* RollbackConfig, lines 131-141
RollbackConfigBegin(name, version) ==
    IF name = "" THEN Invalid("name", <<"name is required">>)
    ELSE IF version < 1 THEN Invalid("version", <<"version must be >= 1">>)
    ELSE Goto("GetVersion", NoConfig, NoVersion)

\* RollbackConfig, lines 141-147
RollbackConfigAfterGetVersion(p, err, targetVersion) ==
    IF err # NoErr THEN Fail(err, "") ELSE Goto("Get", NoConfig, targetVersion)

\* (mutant) the historical data is not validated again
RollbackConfigAfterGetNoValidate(p, err, current) ==
    IF err # NoErr THEN Fail(err, "")
    ELSE Goto("Update",
              [NoConfig EXCEPT !.Name = op[p].name, !.Type = current.Type,
                               !.Data = tmp[p].Data],
              NoVersion)

\* (mutant) the rollback writes the current data, not the target revision's
RollbackConfigAfterGetCurrent(p, err, current) ==
    IF err # NoErr THEN Fail(err, "")
    ELSE IF ~Validate(current.Type, tmp[p].Data) THEN Fail("SchemaValidationError", "")
    ELSE Goto("Update",
              [NoConfig EXCEPT !.Name = op[p].name, !.Type = current.Type,
                               !.Data = current.Data],
              NoVersion)

\* RollbackConfig, lines 147-167
RollbackConfigAfterGet(p, err, current) ==
    IF err # NoErr THEN Fail(err, "")
    ELSE IF ~Validate(current.Type, tmp[p].Data) THEN Fail("SchemaValidationError", "")
    ELSE Goto("Update",
              [NoConfig EXCEPT !.Name = op[p].name, !.Type = current.Type,
                               !.Data = tmp[p].Data],
              NoVersion)

\* RollbackConfig, lines 167-171
RollbackConfigReturn(p, err, c) ==
    IF err # NoErr THEN Fail(err, "") ELSE Done(NoErr, "", c, NoVersion, <<>>)

\* ListVersions, lines 176-188
ListVersionsReturn(p, err, vs) ==
    IF err # NoErr THEN Fail(err, "") ELSE Done(NoErr, "", NoConfig, NoVersion, vs)

\* where goroutine p goes when the repository method it called returns
Resume(p, err, c, v, vs) ==
    CASE op[p].kind = "CreateConfig" -> CreateConfigReturn(p, err, c)
      [] op[p].kind = "GetConfig" /\ call[p] = "GetVersion" ->
            GetConfigAfterGetVersion(p, err, v)
      [] op[p].kind = "GetConfig" /\ call[p] = "Get" -> GetConfigAfterGet(p, err, c)
      [] op[p].kind = "UpdateConfig" /\ call[p] = "Get" -> UpdateConfigAfterGet(p, err, c)
      [] op[p].kind = "UpdateConfig" /\ call[p] = "Update" -> UpdateConfigReturn(p, err, c)
      [] op[p].kind = "RollbackConfig" /\ call[p] = "GetVersion" ->
            RollbackConfigAfterGetVersion(p, err, v)
      [] op[p].kind = "RollbackConfig" /\ call[p] = "Get" ->
            RollbackConfigAfterGet(p, err, c)
      [] op[p].kind = "RollbackConfig" /\ call[p] = "Update" ->
            RollbackConfigReturn(p, err, c)
      [] op[p].kind = "ListVersions" -> ListVersionsReturn(p, err, vs)
      [] OTHER -> Done(err, "", c, v, vs)

(***************************************************************************)
(* Actions.  An operation starts when a request goroutine is idle; its     *)
(* arguments come from the caller.                                         *)
(***************************************************************************)
Revisions(name) == IF name \in DOMAIN versions THEN Len(versions[name]) ELSE 1

Appending(name) ==
    {q \in Procs : pc[q] # "idle" /\ op[q].name = name
                   /\ op[q].kind \in {"UpdateConfig", "RollbackConfig"}}

\* another revision of name stays within MaxVersion
Room(name) == Revisions(name) + Cardinality(Appending(name)) < MaxVersion

\* the slices of a request document are the caller's: fresh ones enter the heap
Fresh(data) ==
    IF data.kind # "map" THEN {}
    ELSE {data.val[k].val : k \in {x \in DOMAIN data.val : data.val[x].kind = "arr"}}
            \ DOMAIN arrs

Alloc(data) == [a \in DOMAIN arrs \cup Fresh(data) |->
                   IF a \in DOMAIN arrs THEN arrs[a] ELSE DocItems]

NextAddr == Cardinality(DOMAIN arrs) + 1

Begin(p, o, s) ==
    /\ pc[p] = "idle"
    /\ op' = [op EXCEPT ![p] = o]
    /\ SetProc(p, s)
    /\ aliased' = [aliased EXCEPT ![p] = FALSE]
    /\ Cardinality(DOMAIN Alloc(o.data)) <= MaxArrays
    /\ arrs' = Alloc(o.data)
    /\ resp' = [resp EXCEPT ![p] = NoResp]
    /\ UNCHANGED <<configs, versions, schemas, mu, now, hist, seen>>

StartCreateConfig(p, name, type, data) ==
    Begin(p, [NoOp EXCEPT !.kind = "CreateConfig", !.name = name, !.type = type,
                          !.data = data],
          CreateConfigBegin(name, type, data))

StartGetConfig(p, name, hasVersion, version) ==
    Begin(p, [NoOp EXCEPT !.kind = "GetConfig", !.name = name,
                          !.hasVersion = hasVersion, !.version = version],
          GetConfigBegin(name, hasVersion))

StartUpdateConfig(p, name, data) ==
    /\ Room(name)
    /\ Begin(p, [NoOp EXCEPT !.kind = "UpdateConfig", !.name = name, !.data = data],
             UpdateConfigBegin(name, data))

StartRollbackConfig(p, name, version) ==
    /\ Room(name)
    /\ Begin(p, [NoOp EXCEPT !.kind = "RollbackConfig", !.name = name,
                             !.version = version],
             RollbackConfigBegin(name, version))

StartListVersions(p, name) ==
    Begin(p, [NoOp EXCEPT !.kind = "ListVersions", !.name = name],
          IF name = "" THEN Invalid("name", <<"name is required">>)
          ELSE Goto("ListVersions", NoConfig, NoVersion))

StartClear(p) ==
    Begin(p, [NoOp EXCEPT !.kind = "Clear"], Goto("Clear", NoConfig, NoVersion))

\* a direct call of Validator.Validate (it takes no lock): nil or an error
StartValidate(p, configType, data) ==
    Begin(p, [NoOp EXCEPT !.kind = "Validate", !.type = configType, !.data = data],
          IF Validate(configType, data)
          THEN Done(NoErr, "", NoConfig, NoVersion, <<>>)
          ELSE Fail("error", ""))

\* direct calls of the repository's Exists and Stats
StartExists(p, name) ==
    Begin(p, [NoOp EXCEPT !.kind = "Exists", !.name = name],
          Goto("Exists", NoConfig, NoVersion))

StartStats(p) ==
    Begin(p, [NoOp EXCEPT !.kind = "Stats"], Goto("Stats", NoConfig, NoVersion))

\* (mutant) the write lock does not wait for the holders of the lock
LockNoWait(p) ==
    /\ pc[p] = "lock" /\ IsWrite(call[p])
    /\ mu' = [mu EXCEPT !.w = p]
    /\ pc' = [pc EXCEPT ![p] = "body"]
    /\ UNCHANGED <<configs, versions, schemas, arrs, now, op, call, cfg, tmp, ret,
                   aliased, hist, seen, resp>>

\* r.mu.Lock()
Lock(p) ==
    /\ pc[p] = "lock" /\ IsWrite(call[p])
    /\ mu.w = "none" /\ mu.r = {}
    /\ mu' = [mu EXCEPT !.w = p]
    /\ pc' = [pc EXCEPT ![p] = "body"]
    /\ UNCHANGED <<configs, versions, schemas, arrs, now, op, call, cfg, tmp, ret,
                   aliased, hist, seen, resp>>

\* (mutant) the read lock does not wait for the writer
RLockNoWait(p) ==
    /\ pc[p] = "lock" /\ ~IsWrite(call[p])
    /\ mu' = [mu EXCEPT !.r = @ \cup {p}]
    /\ pc' = [pc EXCEPT ![p] = "body"]
    /\ UNCHANGED <<configs, versions, schemas, arrs, now, op, call, cfg, tmp, ret,
                   aliased, hist, seen, resp>>

\* r.mu.RLock()
RLock(p) ==
    /\ pc[p] = "lock" /\ ~IsWrite(call[p])
    /\ mu.w = "none"
    /\ mu' = [mu EXCEPT !.r = @ \cup {p}]
    /\ pc' = [pc EXCEPT ![p] = "body"]
    /\ UNCHANGED <<configs, versions, schemas, arrs, now, op, call, cfg, tmp, ret,
                   aliased, hist, seen, resp>>

\* (mutant) the write lock is not released
UnlockKept == mu

\* defer r.mu.Unlock(), defer r.mu.RUnlock()
Unlock == [mu EXCEPT !.w = "none"]
RUnlock(p) == [mu EXCEPT !.r = @ \ {p}]

\* the Config object a goroutine holds, and whose pointer r.configs may share
Held(q) == IF pc[q] = "idle" THEN ret[q].config ELSE cfg[q]

\* r.configs[name] = config: the map now points to p's object and to no other
Stored(p, name) ==
    [q \in Procs |-> IF q = p THEN TRUE
                     ELSE IF Held(q).Name = name THEN FALSE ELSE aliased[q]]

\* (mutant) Create does not look whether the name exists
CreateBodyNoCheck(p) ==
    /\ pc[p] = "body" /\ call[p] = "Create"
    /\ cfg' = [cfg EXCEPT ![p] = CreateStamp(cfg[p], now)]
    /\ pc' = [pc EXCEPT ![p] = "store"]
    /\ UNCHANGED <<configs, versions, schemas, mu, arrs, now, op, call, tmp, ret,
                   aliased, hist, seen, resp>>

\* Create, lines 40-47
CreateBody(p) ==
    /\ pc[p] = "body" /\ call[p] = "Create"
    /\ IF cfg[p].Name \in DOMAIN configs
       THEN /\ mu' = Unlock
            /\ SetProc(p, Resume(p, "ConfigExistsError", NoConfig, NoVersion, <<>>))
       ELSE /\ cfg' = [cfg EXCEPT ![p] = CreateStamp(cfg[p], now)]
            /\ pc' = [pc EXCEPT ![p] = "store"]
            /\ UNCHANGED <<mu, call, tmp, ret>>
    /\ UNCHANGED <<configs, versions, schemas, arrs, now, op, aliased, hist, seen, resp>>

\* Create, line 50
CreateStore(p) ==
    /\ pc[p] = "store" /\ call[p] = "Create"
    /\ configs' = Put(configs, cfg[p].Name, cfg[p])
    /\ aliased' = Stored(p, cfg[p].Name)
    /\ pc' = [pc EXCEPT ![p] = "commit"]
    /\ UNCHANGED <<versions, schemas, mu, arrs, now, op, call, cfg, tmp, ret, hist, seen, resp>>

\* what a successful write leaves in the history of its name
Written(p) ==
    Append(IF cfg[p].Name \in DOMAIN hist THEN hist[cfg[p].Name] ELSE <<>>,
           [kind |-> op[p].kind, version |-> cfg[p].Version,
            type |-> op[p].type, data |-> cfg[p].Data])

\* Create, lines 52-60
CreateCommit(p) ==
    /\ pc[p] = "commit" /\ call[p] = "Create"
    /\ versions' = Put(versions, cfg[p].Name, CreateVersions(cfg[p]))
    /\ hist' = Put(hist, cfg[p].Name, Written(p))
    /\ mu' = Unlock
    /\ SetProc(p, Resume(p, NoErr, cfg[p], NoVersion, <<>>))
    /\ UNCHANGED <<configs, schemas, arrs, now, op, aliased, seen, resp>>

\* (mutant) Update creates the name when it is absent
UpdateBodyUpsert(p) ==
    /\ pc[p] = "body" /\ call[p] = "Update"
    /\ cfg' = [cfg EXCEPT
                 ![p] = IF cfg[p].Name \notin DOMAIN configs
                        THEN CreateStamp(cfg[p], now)
                        ELSE UpdateStamp(configs[cfg[p].Name], cfg[p], now)]
    /\ pc' = [pc EXCEPT ![p] = "store"]
    /\ UNCHANGED <<configs, versions, schemas, mu, arrs, now, op, call, tmp, ret,
                   aliased, hist, seen, resp>>

\* Update, lines 84-92
UpdateBody(p) ==
    /\ pc[p] = "body" /\ call[p] = "Update"
    /\ IF cfg[p].Name \notin DOMAIN configs
       THEN /\ mu' = Unlock
            /\ SetProc(p, Resume(p, "ConfigNotFoundError", NoConfig, NoVersion, <<>>))
       ELSE /\ cfg' = [cfg EXCEPT
                         ![p] = UpdateStamp(configs[cfg[p].Name], cfg[p], now)]
            /\ pc' = [pc EXCEPT ![p] = "store"]
            /\ UNCHANGED <<mu, call, tmp, ret>>
    /\ UNCHANGED <<configs, versions, schemas, arrs, now, op, aliased, hist, seen, resp>>

\* Update, line 95
UpdateStore(p) ==
    /\ pc[p] = "store" /\ call[p] = "Update"
    /\ configs' = Put(configs, cfg[p].Name, cfg[p])
    /\ aliased' = Stored(p, cfg[p].Name)
    /\ pc' = [pc EXCEPT ![p] = "commit"]
    /\ UNCHANGED <<versions, schemas, mu, arrs, now, op, call, cfg, tmp, ret, hist, seen, resp>>

\* Update, lines 97-105
UpdateCommit(p) ==
    /\ pc[p] = "commit" /\ call[p] = "Update"
    /\ versions' = Put(versions, cfg[p].Name,
                       UpdateVersions(IF cfg[p].Name \in DOMAIN versions
                                      THEN versions[cfg[p].Name] ELSE <<>>, cfg[p]))
    /\ hist' = Put(hist, cfg[p].Name, Written(p))
    /\ mu' = Unlock
    /\ SetProc(p, Resume(p, NoErr, cfg[p], NoVersion, <<>>))
    /\ UNCHANGED <<configs, schemas, arrs, now, op, aliased, seen, resp>>

\* Get, lines 65-77
GetBody(p) ==
    /\ pc[p] = "body" /\ call[p] = "Get"
    /\ mu' = RUnlock(p)
    /\ SetProc(p, Resume(p, GetResult(op[p].name).err, GetResult(op[p].name).config,
                         NoVersion, <<>>))
    /\ UNCHANGED <<configs, versions, schemas, arrs, now, op, aliased, hist, seen, resp>>

\* GetVersion, lines 110-126
GetVersionBody(p) ==
    /\ pc[p] = "body" /\ call[p] = "GetVersion"
    /\ mu' = RUnlock(p)
    /\ SetProc(p, Resume(p, GetVersionResult(op[p].name, op[p].version).err, NoConfig,
                         GetVersionResult(op[p].name, op[p].version).version, <<>>))
    /\ UNCHANGED <<configs, versions, schemas, arrs, now, op, aliased, hist, seen, resp>>

\* ListVersions, lines 130-149
ListVersionsBody(p) ==
    /\ pc[p] = "body" /\ call[p] = "ListVersions"
    /\ mu' = RUnlock(p)
    /\ SetProc(p, Resume(p, ListVersionsResult(op[p].name).err, NoConfig, NoVersion,
                         ListVersionsResult(op[p].name).versions))
    /\ UNCHANGED <<configs, versions, schemas, arrs, now, op, aliased, hist, seen, resp>>

\* Exists, lines 153-158
ExistsBody(p) ==
    /\ pc[p] = "body" /\ call[p] = "Exists"
    /\ mu' = RUnlock(p)
    /\ SetProc(p, [Done(NoErr, "", NoConfig, NoVersion, <<>>) EXCEPT
                     !.ret.value = <<ExistsResult(op[p].name)>>])
    /\ UNCHANGED <<configs, versions, schemas, arrs, now, op, aliased, hist, seen, resp>>

\* Stats, lines 189-201
StatsBody(p) ==
    /\ pc[p] = "body" /\ call[p] = "Stats"
    /\ mu' = RUnlock(p)
    /\ SetProc(p, [Done(NoErr, "", NoConfig, NoVersion, <<>>) EXCEPT
                     !.ret.value = StatsResult])
    /\ UNCHANGED <<configs, versions, schemas, arrs, now, op, aliased, hist, seen, resp>>

\* Clear, lines 180-183
ClearBody(p) ==
    /\ pc[p] = "body" /\ call[p] = "Clear"
    /\ configs' = <<>>
    /\ aliased' = [q \in Procs |-> FALSE]
    /\ pc' = [pc EXCEPT ![p] = "commit"]
    /\ UNCHANGED <<versions, schemas, mu, arrs, now, op, call, cfg, tmp, ret, hist, seen, resp>>

\* (mutant) Clear leaves the revisions in place
ClearCommitKeepsVersions(p) ==
    /\ pc[p] = "commit" /\ call[p] = "Clear"
    /\ hist' = <<>>
    /\ mu' = Unlock
    /\ SetProc(p, Done(NoErr, "", NoConfig, NoVersion, <<>>))
    /\ UNCHANGED <<configs, versions, schemas, arrs, now, op, aliased, seen, resp>>

\* Clear, lines 184-185
ClearCommit(p) ==
    /\ pc[p] = "commit" /\ call[p] = "Clear"
    /\ versions' = <<>>
    /\ hist' = <<>>
    /\ mu' = Unlock
    /\ SetProc(p, Done(NoErr, "", NoConfig, NoVersion, <<>>))
    /\ UNCHANGED <<configs, schemas, arrs, now, op, aliased, seen, resp>>

\* RegisterSchema, lines 44-58 (the definition compiles)
RegisterSchema(configType, schema) ==
    /\ schemas' = Put(schemas, configType, schema)
    /\ UNCHANGED <<configs, versions, mu, arrs, now, pc, op, call, cfg, tmp, ret,
                   aliased, hist, seen, resp>>

\* goroutine p's last operation was of this kind and returned without error
Returned(p, kind) == pc[p] = "idle" /\ op[p].kind = kind /\ ret[p].err = NoErr

\* time passes: a later time.Now() reads a later instant
Tick ==
    /\ now < MaxClock
    /\ now' = now + 1
    /\ UNCHANGED <<configs, versions, schemas, mu, arrs, pc, op, call, cfg, tmp, ret,
                   aliased, hist, seen, resp>>

(***************************************************************************)
(* Specifications.                                                         *)
(***************************************************************************)
\* NewInMemoryRepository, NewValidator, NewConfigService; no request yet
Init ==
    /\ configs = <<>>
    /\ versions = <<>>
    /\ schemas = NewValidator
    /\ mu = [w |-> "none", r |-> {}]
    /\ arrs = <<>>
    /\ now = 1
    /\ pc = [p \in Procs |-> "idle"]
    /\ op = [p \in Procs |-> NoOp]
    /\ call = [p \in Procs |-> "none"]
    /\ cfg = [p \in Procs |-> NoConfig]
    /\ tmp = [p \in Procs |-> NoVersion]
    /\ ret = [p \in Procs |-> NoRet]
    /\ aliased = [p \in Procs |-> FALSE]
    /\ hist = <<>>
    /\ seen = [p \in Procs |-> <<>>]
    /\ resp = [p \in Procs |-> NoResp]

\* the steps of the repository methods
Repo(p) ==
    \/ Lock(p)
    \/ RLock(p)
    \/ CreateBody(p)
    \/ CreateStore(p)
    \/ CreateCommit(p)
    \/ UpdateBody(p)
    \/ UpdateStore(p)
    \/ UpdateCommit(p)
    \/ GetBody(p)
    \/ GetVersionBody(p)
    \/ ListVersionsBody(p)

\* requests to the service: names N, types T, documents D, version numbers V
Requests(p, N, T, D, V) ==
    \/ \E n \in N, t \in T, d \in D : StartCreateConfig(p, n, t, d)
    \/ \E n \in N, d \in D : StartUpdateConfig(p, n, d)
    \/ \E n \in N, v \in V : StartRollbackConfig(p, n, v)
    \/ \E n \in N : StartGetConfig(p, n, FALSE, 0)
    \/ \E n \in N, v \in V : StartGetConfig(p, n, TRUE, v)
    \/ \E n \in N : StartListVersions(p, n)

Administer(p) == StartClear(p) \/ ClearBody(p) \/ ClearCommit(p)

\* Spec: the store under concurrent requests and the administrative Clear,
\* all within one reading of the clock
Next ==
    \E p \in Procs :
        \/ Requests(p, {"a"}, {"payment_config"}, {Pay1, Pay2}, {1, 2})
        \/ Repo(p)
        \/ Administer(p)

Spec == Init /\ [][Next]_vars

\* SpecSvc: the running service (no Clear); a second type is registered
NextSvc ==
    \/ \E p \in Procs :
        \/ Requests(p, {"a"}, {"payment_config", "custom_config"},
                    {Pay1, MapV([name |-> StrV("x")])}, {1})
        \/ Repo(p)
    \/ RegisterSchema("custom_config", CustomSchema)

SpecSvc == Init /\ [][NextSvc]_vars

\* SpecSeq: one request at a time, the clock advancing between them
NextSeq ==
    \/ \E p \in {"p1"} :
        \/ Requests(p, {"a"}, {"payment_config"}, {Pay1, Pay2, PayMissing},
                    0..MaxVersion)
        \/ Repo(p)
        \/ Administer(p)
    \/ Tick

SpecSeq == Init /\ [][NextSeq]_vars

(***************************************************************************)
(* The caller's side.  After an operation has returned, the caller holds   *)
(* what it passed in and what it got back, and may assign through it:      *)
(*   "top"     data[k] = 9999                                              *)
(*   "nested"  data[k].(map[string]interface{})["k"] = 9999                *)
(*   "item"    data[k].([]interface{})[0].(map[string]interface{})["k"]    *)
(*             = 9999                                                      *)
(***************************************************************************)
Poked == IntV(9999)
Ways == {"top", "nested", "item"}

KeysOf(data, kind) ==
    IF data.kind # "map" THEN {}
    ELSE {k \in DOMAIN data.val : data.val[k].kind = kind}

\* the assignment is possible on this document
CanPoke(data, way, k) ==
    CASE way = "top" -> k \in KeysOf(data, "int")
      [] way = "nested" -> k \in KeysOf(data, "map")
      [] OTHER -> /\ k \in KeysOf(data, "arr")
                  /\ Len(arrs[data.val[k].val]) >= 1
                  /\ arrs[data.val[k].val][1].kind = "map"

\* the document after the assignment (maps are the holder's own objects)
PokeData(data, way, k) ==
    CASE way = "top" -> MapV(Put(data.val, k, Poked))
      [] way = "nested" ->
            MapV([data.val EXCEPT ![k] = MapV(Put(data.val[k].val, "k", Poked))])
      [] OTHER -> data

\* the heap after the assignment (a slice's elements are shared by all who hold it)
PokeHeap(data, way, k) ==
    IF way = "item"
    THEN [arrs EXCEPT ![data.val[k].val] =
             [@ EXCEPT ![1] = MapV(Put(@.val, "k", Poked))]]
    ELSE arrs

\* the caller assigns into the data of the Configuration a read returned
MutateRead(p, way, k) ==
    /\ Returned(p, "GetConfig")
    /\ CanPoke(ret[p].config.Data, way, k)
    /\ ret' = [ret EXCEPT ![p].config.Data = PokeData(ret[p].config.Data, way, k)]
    /\ arrs' = PokeHeap(ret[p].config.Data, way, k)
    /\ UNCHANGED <<configs, versions, schemas, mu, now, pc, op, call, cfg, tmp,
                   aliased, hist, seen, resp>>

\* the caller assigns into the data of a revision ListVersions returned
MutateListed(p, i, way, k) ==
    /\ Returned(p, "ListVersions")
    /\ i \in 1..Len(ret[p].versions)
    /\ CanPoke(ret[p].versions[i].Data, way, k)
    /\ ret' = [ret EXCEPT
                 ![p].versions[i].Data = PokeData(ret[p].versions[i].Data, way, k)]
    /\ arrs' = PokeHeap(ret[p].versions[i].Data, way, k)
    /\ UNCHANGED <<configs, versions, schemas, mu, now, pc, op, call, cfg, tmp,
                   aliased, hist, seen, resp>>

\* the caller assigns into the data of the Config it passed to a write (the
\* request's map) and got back; r.configs may point to that very object
MutateWritten(p, way, k) ==
    /\ \/ Returned(p, "CreateConfig")
       \/ Returned(p, "UpdateConfig")
       \/ Returned(p, "RollbackConfig")
    /\ CanPoke(ret[p].config.Data, way, k)
    /\ ret' = [ret EXCEPT ![p].config.Data = PokeData(ret[p].config.Data, way, k)]
    /\ configs' = IF aliased[p]
                  THEN [configs EXCEPT
                          ![ret[p].config.Name].Data =
                              PokeData(ret[p].config.Data, way, k)]
                  ELSE configs
    /\ arrs' = PokeHeap(ret[p].config.Data, way, k)
    /\ UNCHANGED <<versions, schemas, mu, now, pc, op, call, cfg, tmp, aliased, hist, seen, resp>>

DocKeys == {"name", "opts", "items", "max_limit"}

\* what caller p has read of a name so far
Seen(p, name) ==
    IF name \in DOMAIN seen[p] THEN seen[p][name] ELSE [latest |-> 0, listed |-> 0]

Max(a, b) == IF a >= b THEN a ELSE b

\* the caller takes note of the version GetConfig(name) returned, or of the
\* number of revisions ListVersions(name) returned
Note(p) ==
    /\ \/ Returned(p, "GetConfig") /\ ~op[p].hasVersion
       \/ Returned(p, "ListVersions")
    /\ seen' = [seen EXCEPT ![p] =
                  Put(seen[p], op[p].name,
                      IF op[p].kind = "GetConfig"
                      THEN [Seen(p, op[p].name) EXCEPT
                              !.latest = Max(@, ret[p].config.Version)]
                      ELSE [Seen(p, op[p].name) EXCEPT
                              !.listed = Max(@, Len(ret[p].versions))])]
    /\ UNCHANGED <<configs, versions, schemas, mu, arrs, now, pc, op, call, cfg, tmp,
                   ret, aliased, hist, resp>>

\* SpecAlias: one caller that also assigns through what it holds; documents
\* with nested maps and slices are stored under a registered custom type
NextAlias ==
    \/ \E p \in {"p1"} :
        \/ Requests(p, {"a"}, {"custom_config"},
                    {Doc(NextAddr), MapV([name |-> StrV("x"), max_limit |-> IntV(1)])},
                    {1})
        \/ Repo(p)
        \/ \E way \in Ways, k \in DocKeys : MutateRead(p, way, k)
        \/ \E i \in 1..MaxVersion, way \in Ways, k \in DocKeys :
              MutateListed(p, i, way, k)
        \/ \E way \in Ways, k \in DocKeys : MutateWritten(p, way, k)
    \/ RegisterSchema("custom_config", CustomSchema)

SpecAlias == Init /\ [][NextAlias]_vars

\* SpecRace: one goroutine serves requests (target versions from 0) while
\* another clears the repository
NextRace ==
    \/ \E p \in {"p1"} :
          Requests(p, {"a"}, {"payment_config"}, {Pay1, Pay2}, {0, 1})
    \/ \E p \in {"p2"} : Administer(p)
    \/ \E p \in Procs : Repo(p)

SpecRace == Init /\ [][NextRace]_vars

\* SpecForm: one request at a time; requests may lack a name, a type or
\* data, or name a type that is not registered
NextForm ==
    \E p \in {"p1"} :
        \/ Requests(p, {"", "a"}, {"", "payment_config", "custom_config"},
                    {Pay1, PayMissing, NilData}, {0, 1})
        \/ Repo(p)

SpecForm == Init /\ [][NextForm]_vars

\* documents for payment_config: each field absent, well typed or ill typed,
\* with and without an undeclared field
WithField(f, k, vals) == {f} \cup {Put(f, k, v) : v \in vals}

PaymentDocs ==
    {MapV(f) :
       f \in UNION {WithField(g, "extra", {StrV("field")}) :
                     g \in UNION {WithField(h, "enabled",
                                            {BoolV(TRUE), StrV("not_a_boolean"), IntV(1)}) :
                                  h \in WithField(<<>>, "max_limit",
                                                  {IntV(1000), FloatV(10005),
                                                   FloatV(10000),
                                                   StrV("not_a_number")})}}}

\* SpecValidate: one goroutine validates, creates and updates with documents
\* of every shape
NextValidate ==
    \E p \in {"p1"} :
        \/ \E d \in PaymentDocs \cup {NilData} : StartValidate(p, "payment_config", d)
        \/ Requests(p, {"a"}, {"payment_config"}, PaymentDocs, {1})
        \/ Repo(p)

SpecValidate == Init /\ [][NextValidate]_vars

\* SpecOrder: two concurrent writers of one name, no Clear; one of them also
\* reads and remembers what it has read
NextOrder ==
    \/ \E p \in Procs :
        \/ StartCreateConfig(p, "a", "payment_config", Pay1)
        \/ StartUpdateConfig(p, "a", Pay1)
        \/ StartRollbackConfig(p, "a", 1)
        \/ Repo(p)
    \/ \E p \in {"p1"} :
        \/ StartGetConfig(p, "a", FALSE, 0)
        \/ StartListVersions(p, "a")
        \/ Note(p)

SpecOrder == Init /\ [][NextOrder]_vars

\* the read calls of the repository and of the service
Inspect(p, N, V) ==
    \/ \E n \in N : StartGetConfig(p, n, FALSE, 0)
    \/ \E n \in N, v \in V : StartGetConfig(p, n, TRUE, v)
    \/ \E n \in N : StartListVersions(p, n)
    \/ \E n \in N : StartExists(p, n)
    \/ StartStats(p)

\* SpecRead: one goroutine writes (create, update, rollback, Clear) while
\* another reads
NextRead ==
    \/ \E p \in {"p1"} :
        \/ \E n \in {"a", "b"} : StartCreateConfig(p, n, "payment_config", Pay1)
        \/ StartUpdateConfig(p, "a", Pay2)
        \/ StartRollbackConfig(p, "a", 1)
        \/ Administer(p)
    \/ \E p \in {"p2"} : Inspect(p, {"a"}, {1})
    \/ \E p \in Procs : Repo(p) \/ ExistsBody(p) \/ StatsBody(p)

SpecRead == Init /\ [][NextRead]_vars

\* SpecSchema: one goroutine serves requests while the definition of
\* payment_config is registered again, to the later one and back
NextSchema ==
    \/ \E p \in {"p1"} :
        \/ Requests(p, {"a"}, {"payment_config"}, {Pay1, PayV2}, {1, 2})
        \/ Repo(p)
    \/ RegisterSchema("payment_config", PaymentSchemaV2)
    \/ RegisterSchema("payment_config", PaymentSchema)

SpecSchema == Init /\ [][NextSchema]_vars

(***************************************************************************)
(* Claims.                                                                 *)
(***************************************************************************)
Names == DOMAIN configs \cup DOMAIN versions
Quiet == mu.w = "none"      \* no writer is inside the repository

\* C1: whenever no write is in progress, a name has either no latest
\* configuration and no revisions, or n >= 1 revisions whose version numbers
\* are 1..n in list order and a latest configuration with Version = n.
C1_Contiguous ==
    Quiet =>
        \A n \in Names :
            /\ n \in DOMAIN configs /\ n \in DOMAIN versions
            /\ Len(versions[n]) >= 1
            /\ \A i \in 1..Len(versions[n]) : versions[n][i].Version = i
            /\ configs[n].Version = Len(versions[n])

C1_Witness ==
    /\ Quiet /\ "a" \in DOMAIN versions /\ Len(versions["a"]) = 3
    /\ \E i \in 1..3 : hist["a"][i].kind = "RollbackConfig"

\* C2: the version numbers handed to the successful writers of a name are
\* distinct and contiguous (the i-th successful write got number i), and the
\* name has one revision per successful write: no update is lost, no number
\* is given twice, whatever the interleaving.
C2_NoLostUpdate ==
    Quiet =>
        \A n \in DOMAIN hist :
            /\ \A i \in 1..Len(hist[n]) : hist[n][i].version = i
            /\ n \in DOMAIN versions /\ Len(versions[n]) = Len(hist[n])

C2_Witness ==
    /\ Returned("p1", "UpdateConfig") /\ Returned("p2", "UpdateConfig")
    /\ ret["p1"].config.Version = 3 /\ ret["p2"].config.Version = 2
    /\ Quiet /\ Len(versions["a"]) = 3 /\ aliased["p1"]

\* C3: of the Creates of one absent name exactly one succeeds; a name's
\* history holds one create, its first entry, and every Create that reached
\* the store and did not succeed returned ConfigExistsError.
C3_OneCreateWins ==
    /\ \A n \in DOMAIN hist :
          \A i \in 1..Len(hist[n]) : (hist[n][i].kind = "CreateConfig") <=> (i = 1)
    /\ \A p \in Procs :
          (pc[p] = "idle" /\ op[p].kind = "CreateConfig" /\ ret[p].err # NoErr
             /\ Validate(op[p].type, op[p].data))
          => ret[p].err = "ConfigExistsError"

C3_Witness ==
    /\ Returned("p1", "CreateConfig") /\ aliased["p1"]
    /\ pc["p2"] = "idle" /\ op["p2"].kind = "CreateConfig"
    /\ ret["p2"].err = "ConfigExistsError"

IsPrefix(s, t) == Len(s) <= Len(t) /\ \A i \in 1..Len(s) : s[i] = t[i]

\* C5: every step other than Clear keeps each name's revision sequence as a
\* prefix of the new one and adds at most one revision; a name appears only
\* by a create (with one revision), a sequence grows only by an update or a
\* rollback.
C5_AppendOnly ==
    [][(~ \E p \in Procs : ClearCommit(p)) =>
          /\ \A n \in DOMAIN versions :
                /\ n \in DOMAIN versions'
                /\ IsPrefix(versions[n], versions'[n])
                /\ Len(versions'[n]) <= Len(versions[n]) + 1
                /\ Len(versions'[n]) = Len(versions[n]) + 1 =>
                      \E p \in Procs :
                         /\ UpdateCommit(p)
                         /\ op[p].kind \in {"UpdateConfig", "RollbackConfig"}
          /\ \A n \in DOMAIN versions' \ DOMAIN versions :
                /\ Len(versions'[n]) = 1
                /\ \E p \in Procs : CreateCommit(p) /\ op[p].kind = "CreateConfig"
      ]_vars

C5_Witness ==
    /\ "a" \in DOMAIN hist /\ Len(hist["a"]) = 3
    /\ hist["a"][2].kind = "UpdateConfig" /\ hist["a"][3].kind = "RollbackConfig"
    /\ versions["a"][3].Data = versions["a"][1].Data
    /\ versions["a"][2].Data # versions["a"][1].Data

\* C4: the step in which a RollbackConfig(name, k) succeeds leaves every
\* revision of name as it was (number, data, timestamp), appends exactly one
\* revision, whose data is revision k's data, and GetVersion(name, k) gives
\* the same result before and after; the returned Configuration carries
\* that data.
C4_RollbackAppends ==
    [][\A p \in Procs, n \in DOMAIN versions, k \in 0..(MaxVersion + 1) :
          (UpdateCommit(p) /\ op[p].kind = "RollbackConfig"
             /\ op[p].name = n /\ op[p].version = k)
          => /\ k \in 1..Len(versions[n])
             /\ Len(versions'[n]) = Len(versions[n]) + 1
             /\ \A i \in 1..Len(versions[n]) : versions'[n][i] = versions[n][i]
             /\ versions'[n][Len(versions'[n])].Data = versions[n][k].Data
             /\ GetVersionResult(n, k)' = GetVersionResult(n, k)
             /\ ret'[p].err = NoErr
             /\ ret'[p].config.Data = versions[n][k].Data
      ]_vars

C4_Witness ==
    /\ Returned("p1", "RollbackConfig") /\ op["p1"].version = 1
    /\ Len(versions["a"]) = 3
    /\ versions["a"][1].Data = Pay1 /\ versions["a"][2].Data = Pay2
    /\ versions["a"][3].Data = Pay1
    /\ versions["a"][1].CreatedAt = 1 /\ versions["a"][3].CreatedAt = 2

\* C8: without Clear, the type of an existing name is the type given to the
\* CreateConfig that created it, in the store and in what GetConfig returns,
\* after any interleaving of service operations.
C8_TypeFixed ==
    /\ Quiet => \A n \in DOMAIN configs :
                   n \in DOMAIN hist /\ hist[n][1].kind = "CreateConfig"
                   /\ configs[n].Type = hist[n][1].type
    /\ \A p \in Procs :
          Returned(p, "GetConfig") =>
             /\ op[p].name \in DOMAIN hist
             /\ ret[p].config.Type = hist[op[p].name][1].type

C8_Witness ==
    /\ Returned("p1", "GetConfig") /\ ~op["p1"].hasVersion
    /\ ret["p1"].config.Type = "custom_config" /\ ret["p1"].config.Version = 3
    /\ hist["a"][2].kind = "UpdateConfig" /\ hist["a"][3].kind = "RollbackConfig"

\* C9: with one request at a time, after a create and N successful updates
\* or rollbacks of a name, ListVersions returns exactly N+1 revisions
\* numbered 1..N+1 and the latest Configuration has version N+1.
Appends(n) ==
    Cardinality({i \in 1..Len(hist[n]) :
                    hist[n][i].kind \in {"UpdateConfig", "RollbackConfig"}})

C9_CountsMatch ==
    \A p \in Procs :
        /\ Returned(p, "ListVersions") =>
              /\ op[p].name \in DOMAIN hist
              /\ hist[op[p].name][1].kind = "CreateConfig"
              /\ Len(ret[p].versions) = Appends(op[p].name) + 1
              /\ \A i \in 1..Len(ret[p].versions) : ret[p].versions[i].Version = i
        /\ (Returned(p, "GetConfig") /\ ~op[p].hasVersion) =>
              ret[p].config.Version = Appends(op[p].name) + 1

C9_Witness ==
    /\ Returned("p1", "ListVersions") /\ Len(ret["p1"].versions) = 3
    /\ Appends("a") = 2 /\ hist["a"][3].kind = "RollbackConfig"

\* C10: the step in which a create succeeds returns a Configuration with
\* version 1 and created_at = updated_at, and leaves revision 1 with that
\* timestamp as the only revision.
C10_CreateResult ==
    [][\A p \in Procs :
          CreateCommit(p) =>
             /\ ret'[p].err = NoErr
             /\ ret'[p].config.Version = 1
             /\ ret'[p].config.CreatedAt = ret'[p].config.UpdatedAt
             /\ Len(versions'[op[p].name]) = 1
             /\ versions'[op[p].name][1].Version = 1
             /\ versions'[op[p].name][1].CreatedAt = ret'[p].config.CreatedAt
      ]_vars

C10_Witness ==
    /\ Returned("p1", "CreateConfig") /\ ret["p1"].config.CreatedAt = 2
    /\ ret["p1"].config.Version = 1 /\ versions["a"][1].CreatedAt = 2

\* what a document holds, its slices followed into the heap
RECURSIVE Deref(_)
Deref(v) ==
    CASE v.kind = "map" -> MapV([k \in DOMAIN v.val |-> Deref(v.val[k])])
      [] v.kind = "arr" -> [kind |-> "arr", val |-> arrs[v.val]]
      [] OTHER -> v

\* what Get and ListVersions return for every name, as a caller reads it
Reads ==
    [n \in DOMAIN versions |->
        [latest |-> IF GetResult(n).err = NoErr
                    THEN [GetResult(n).config EXCEPT !.Data = Deref(@)]
                    ELSE NoConfig,
         list |-> [i \in 1..Len(ListVersionsResult(n).versions) |->
                     [ListVersionsResult(n).versions[i] EXCEPT !.Data = Deref(@)]]]]

\* C6: an assignment into the data a read returned (at any depth, an object
\* nested in an array included) changes the result of no later read.
C6_ReadIsolation ==
    [][(\E p \in Procs, way \in Ways, k \in DocKeys :
           \/ MutateRead(p, way, k)
           \/ \E i \in 1..MaxVersion : MutateListed(p, i, way, k))
       => Reads' = Reads]_vars

\* C7: an assignment into the Config or data map passed to or returned by a
\* successful write changes the result of no later read.
C7_NoRetainedReference ==
    [][(\E p \in Procs, way \in Ways, k \in DocKeys : MutateWritten(p, way, k))
       => Reads' = Reads]_vars

\* C11: the step in which Create finds that the name already has revisions
\* returns ConfigExistsError and leaves the latest configuration and every
\* revision of every name as they were (version, data, type, timestamps).
C11_CreateExisting ==
    [][\A p \in Procs :
          (CreateBody(p) /\ op[p].name \in DOMAIN versions
             /\ Len(versions[op[p].name]) >= 1)
          => /\ pc'[p] = "idle"
             /\ ret'[p].err = "ConfigExistsError"
             /\ configs' = configs
             /\ versions' = versions
      ]_vars

C11_Witness ==
    /\ pc["p1"] = "idle" /\ op["p1"].kind = "CreateConfig"
    /\ ret["p1"].err = "ConfigExistsError" /\ op["p1"].data = Pay2
    /\ "a" \in DOMAIN versions /\ Len(versions["a"]) = 2
    /\ versions["a"][1].Data = Pay1 /\ versions["a"][1].CreatedAt = 1 /\ now = 2
    /\ configs["a"].Version = 2

\* the repository methods that look the name up before anything else
Lookups == {"Get", "GetVersion", "ListVersions", "Update"}
Looking(p) == pc[p] = "body" /\ call[p] \in Lookups /\ pc'[p] # "body"
\* goroutine p's operation ends in this step
Ends(p) == pc'[p] = "idle" /\ <<pc[p], op[p], ret[p]>> # <<pc'[p], op'[p], ret'[p]>>

\* C12 as stated: every Update, Rollback, GetVersion, ListVersions and Get
\* on a name with no revisions fails with ConfigNotFoundError, and the name
\* and its revisions are not created.
C12_NotFoundAlways ==
    [][\A p \in Procs :
          (Ends(p) /\ op'[p].name \notin DOMAIN versions
             /\ op'[p].kind \in {"UpdateConfig", "RollbackConfig", "GetConfig",
                                 "ListVersions"})
          => /\ ret'[p].err = "ConfigNotFoundError"
             /\ configs' = configs /\ versions' = versions
      ]_vars

\* C12 (amended): a request that passes request validation reaches the
\* store, and every Update, GetVersion, ListVersions and Get of the store on
\* a name with no revisions ends the operation with ConfigNotFoundError and
\* leaves the store as it was; a RollbackConfig whose target version is
\* below 1 is rejected with ValidationError (field version) before the store
\* is read.
C12_NotFound ==
    [][\A p \in Procs :
          /\ (Looking(p) /\ op[p].name \notin DOMAIN versions)
             => /\ pc'[p] = "idle"
                /\ ret'[p].err = "ConfigNotFoundError"
                /\ configs' = configs /\ versions' = versions
          /\ (Ends(p) /\ op'[p].kind \in {"UpdateConfig", "RollbackConfig", "GetConfig",
                                          "ListVersions"}
                /\ op'[p].name \notin DOMAIN versions)
             => /\ configs' = configs /\ versions' = versions
                /\ IF op'[p].kind = "RollbackConfig" /\ op'[p].version < 1
                   THEN ret'[p].err = "ValidationError" /\ ret'[p].field = "version"
                   ELSE ret'[p].err = "ConfigNotFoundError"
      ]_vars

\* an UpdateConfig refused with ConfigNotFoundError once Clear has emptied
\* the repository
C12_Witness ==
    /\ pc["p1"] = "idle" /\ op["p1"].kind = "UpdateConfig"
    /\ ret["p1"].err = "ConfigNotFoundError"
    /\ hist = <<>> /\ versions = <<>> /\ configs = <<>>
    /\ pc["p2"] = "idle" /\ op["p2"].kind = "Clear"

\* C13: the step in which GetVersion(name, version) runs fails with
\* ConfigNotFoundError when the name has no revisions, whatever the version;
\* for a name with n revisions it fails with VersionNotFoundError exactly
\* when version < 1 or version > n, and otherwise hands on the revision
\* numbered version, with that revision's data and timestamp.
C13_GetVersion ==
    [][\A p \in Procs :
          (pc[p] = "body" /\ call[p] = "GetVersion" /\ pc'[p] # "body")
          => IF op[p].name \notin DOMAIN versions
             THEN pc'[p] = "idle" /\ ret'[p].err = "ConfigNotFoundError"
             ELSE IF op[p].version < 1 \/ op[p].version > Len(versions[op[p].name])
             THEN pc'[p] = "idle" /\ ret'[p].err = "VersionNotFoundError"
             ELSE /\ pc'[p] # "idle"
                  /\ tmp'[p].Version = op[p].version
                  /\ \E i \in 1..Len(versions[op[p].name]) :
                        /\ versions[op[p].name][i].Version = op[p].version
                        /\ tmp'[p].Data = versions[op[p].name][i].Data
                        /\ tmp'[p].CreatedAt = versions[op[p].name][i].CreatedAt
      ]_vars

C13_Witness ==
    /\ pc["p1"] = "idle" /\ op["p1"].kind = "GetConfig" /\ op["p1"].hasVersion
    /\ op["p1"].version = 3 /\ ret["p1"].err = "VersionNotFoundError"
    /\ "a" \in DOMAIN versions /\ Len(versions["a"]) = 2

\* goroutine p starts an operation in this step
Starts(p) == pc[p] = "idle" /\ <<pc[p], op[p], ret[p]>> # <<pc'[p], op'[p], ret'[p]>>

\* C14: a CreateConfig whose data fails the schema of its (registered) type,
\* and an UpdateConfig whose data fails the schema of the existing
\* configuration's type, end with SchemaValidationError in a step that leaves
\* the store unchanged, without entering Create or Update; and a goroutine
\* of CreateConfig or UpdateConfig is inside the store's Create or Update
\* only with data that passes the schema of the type it writes.
C14_ValidationGates ==
    [][\A p \in Procs :
          /\ (Starts(p) /\ op'[p].kind = "CreateConfig" /\ HasSchema(op'[p].type)
                /\ ~SchemaAccepts(schemas[op'[p].type], op'[p].data))
             => /\ pc'[p] = "idle" /\ ret'[p].err = "SchemaValidationError"
                /\ configs' = configs /\ versions' = versions
          /\ (pc[p] = "body" /\ call[p] = "Get" /\ pc'[p] # "body"
                /\ op[p].kind = "UpdateConfig" /\ op[p].name \in DOMAIN configs
                /\ ~SchemaAccepts(schemas[configs[op[p].name].Type], op[p].data))
             => /\ pc'[p] = "idle" /\ ret'[p].err = "SchemaValidationError"
                /\ configs' = configs /\ versions' = versions
          /\ (call'[p] \in {"Create", "Update"}
                /\ op'[p].kind \in {"CreateConfig", "UpdateConfig"})
             => /\ cfg'[p].Type \in DOMAIN schemas'
                /\ SchemaAccepts(schemas'[cfg'[p].Type], cfg'[p].Data)
      ]_vars

C14_Witness ==
    /\ pc["p1"] = "idle" /\ op["p1"].kind = "UpdateConfig" /\ op["p1"].data = Pay1
    /\ ret["p1"].err = "SchemaValidationError"
    /\ "a" \in DOMAIN configs /\ configs["a"].Type = "custom_config"
    /\ Len(versions["a"]) = 2 /\ Len(hist["a"]) = 2

\* C15: a CreateConfig whose type has no registered schema fails with
\* ValidationError (never SchemaValidationError or ConfigExistsError) in a
\* step that leaves the store unchanged, whether or not the name exists;
\* when the request has a name, a type and data, the error is on field
\* "type" and its message names the unknown type.
C15_UnknownType ==
    [][\A p \in Procs :
          (Starts(p) /\ op'[p].kind = "CreateConfig" /\ ~HasSchema(op'[p].type))
          => /\ pc'[p] = "idle" /\ ret'[p].err = "ValidationError"
             /\ configs' = configs /\ versions' = versions
             /\ (op'[p].name # "" /\ op'[p].type # "" /\ op'[p].data.kind # "nil")
                => /\ ret'[p].field = "type"
                   /\ ret'[p].msg = <<"unknown config type: ", op'[p].type>>
      ]_vars

C15_Witness ==
    /\ pc["p1"] = "idle" /\ op["p1"].kind = "CreateConfig"
    /\ op["p1"].name = "a" /\ op["p1"].type = "custom_config" /\ op["p1"].data = Pay1
    /\ ret["p1"].err = "ValidationError" /\ ret["p1"].field = "type"
    /\ "a" \in DOMAIN versions /\ Len(versions["a"]) = 2

\* C16: the step in which RollbackConfig(name, k) has fetched the current
\* configuration validates revision k's data against the schema registered
\* for the configuration's type at that moment: when the data does not
\* validate the operation ends with SchemaValidationError and the store is
\* unchanged; when it validates the operation goes on to Update, and the
\* step in which it completes appends exactly one revision.
C16_RollbackRevalidates ==
    [][\A p \in Procs :
          /\ (pc[p] = "body" /\ call[p] = "Get" /\ pc'[p] # "body"
                /\ op[p].kind = "RollbackConfig" /\ op[p].name \in DOMAIN configs)
             => IF SchemaAccepts(schemas[configs[op[p].name].Type],
                                 versions[op[p].name][op[p].version].Data)
                THEN call'[p] = "Update" /\ pc'[p] # "idle"
                ELSE /\ pc'[p] = "idle" /\ ret'[p].err = "SchemaValidationError"
                     /\ configs' = configs /\ versions' = versions
          /\ (pc[p] # "idle" /\ pc'[p] = "idle" /\ op[p].kind = "RollbackConfig")
             => IF ret'[p].err = NoErr
                THEN Len(versions'[op[p].name]) = Len(versions[op[p].name]) + 1
                ELSE versions' = versions
      ]_vars

\* revision 1 was valid when written, the schema changed, the rollback to it
\* is refused
C16_Witness ==
    /\ pc["p1"] = "idle" /\ op["p1"].kind = "RollbackConfig" /\ op["p1"].version = 1
    /\ ret["p1"].err = "SchemaValidationError"
    /\ schemas["payment_config"] = PaymentSchemaV2
    /\ Len(versions["a"]) = 2 /\ versions["a"][1].Data = Pay1
    /\ versions["a"][2].Data = PayV2

\* C17: the step that ends a GetConfig(name, version) without error returns
\* the name, the version, data and (as updated_at) timestamp of revision
\* `version`, and the type and created_at of the latest record; with the
\* version omitted it returns the store's latest Configuration; and when the
\* store refuses (no such name, no such version) the operation ends with the
\* store's error.
C17_GetConfig ==
    [][\A p \in Procs :
          (pc[p] = "body" /\ pc'[p] # "body" /\ op[p].kind = "GetConfig")
          => IF op[p].name \notin DOMAIN configs
             THEN pc'[p] = "idle" /\ ret'[p].err = "ConfigNotFoundError"
             ELSE IF ~op[p].hasVersion
             THEN /\ pc'[p] = "idle" /\ ret'[p].err = NoErr
                  /\ ret'[p].config = configs[op[p].name]
             ELSE IF op[p].version \notin 1..Len(versions[op[p].name])
             THEN pc'[p] = "idle" /\ ret'[p].err = "VersionNotFoundError"
             ELSE IF call[p] = "GetVersion"
             THEN pc'[p] # "idle" /\ call'[p] = "Get"
             ELSE /\ pc'[p] = "idle" /\ ret'[p].err = NoErr
                  /\ ret'[p].config =
                        [Name |-> op[p].name,
                         Type |-> configs[op[p].name].Type,
                         Version |-> versions[op[p].name][op[p].version].Version,
                         Data |-> versions[op[p].name][op[p].version].Data,
                         CreatedAt |-> configs[op[p].name].CreatedAt,
                         UpdatedAt |-> versions[op[p].name][op[p].version].CreatedAt]
                  /\ ret'[p].config.Version = op[p].version
      ]_vars

C17_Witness ==
    /\ Returned("p1", "GetConfig") /\ op["p1"].hasVersion /\ op["p1"].version = 1
    /\ ret["p1"].config.Version = 1 /\ ret["p1"].config.Data = Pay1
    /\ ret["p1"].config.UpdatedAt = 1 /\ ret["p1"].config.CreatedAt = 1
    /\ configs["a"].Version = 2 /\ configs["a"].Data = Pay2
    /\ configs["a"].UpdatedAt = 2

\* the store as a whole: every name has its record and its revisions, and
\* the record is the last revision
Whole ==
    /\ DOMAIN configs = DOMAIN versions
    /\ \A n \in DOMAIN configs :
          /\ Len(versions[n]) >= 1
          /\ configs[n].Version = Len(versions[n])
          /\ versions[n][Len(versions[n])].Version = configs[n].Version
          /\ versions[n][Len(versions[n])].Data = configs[n].Data
          /\ versions[n][Len(versions[n])].CreatedAt = configs[n].UpdatedAt

\* C18: whenever Get, GetVersion, ListVersions, Exists or Stats reads the
\* store, no Create, Update or Clear is between its lock and its unlock, and
\* the store is whole: no name has a record without its revision or a
\* revision without its record; so Stats counts as many configurations as
\* there are names with revisions, and as many revisions as the records'
\* version numbers add up to.
C18_NoPartialRead ==
    [][\A p \in Procs :
          (pc[p] = "body" /\ ~IsWrite(call[p]) /\ pc'[p] # "body")
          => /\ ~ \E q \in Procs : IsWrite(call[q]) /\ pc[q] \in {"body", "store", "commit"}
             /\ Whole
             /\ call[p] = "Stats" =>
                   /\ ret'[p].value[1] = Cardinality(DOMAIN versions)
                   /\ ret'[p].value[2] =
                         TotalVersions({n \in DOMAIN versions : configs[n].Version >= 1})
             /\ call[p] = "Exists" =>
                   ret'[p].value[1] = (op[p].name \in DOMAIN versions)
      ]_vars

\* the reader counted one configuration with two revisions; the writer is
\* now between the record and the revision of its update
C18_Witness ==
    /\ Returned("p2", "Stats") /\ ret["p2"].value = <<1, 2>>
    /\ pc["p1"] = "commit" /\ call["p1"] = "Update"
    /\ "a" \in DOMAIN configs /\ "a" \in DOMAIN versions
    /\ configs["a"].Version = 3 /\ Len(versions["a"]) = 2

\* goroutine p's last operation was a write that succeeded
Wrote(p) ==
    \/ Returned(p, "CreateConfig")
    \/ Returned(p, "UpdateConfig")
    \/ Returned(p, "RollbackConfig")

\* C19: without Clear, what a caller reads of a name never goes back: the
\* version GetConfig returns and the number of revisions ListVersions
\* returns are at least every version and every count the same caller has
\* read of that name before; and two writers of a name that both succeeded
\* were given different version numbers.
C19_TotalOrder ==
    [][/\ \A p \in Procs :
            /\ (Returned(p, "GetConfig") /\ ~op[p].hasVersion)' =>
                  /\ ret'[p].config.Version >= Seen(p, op'[p].name).latest
                  /\ ret'[p].config.Version >= Seen(p, op'[p].name).listed
            /\ Returned(p, "ListVersions")' =>
                  /\ Len(ret'[p].versions) >= Seen(p, op'[p].name).latest
                  /\ Len(ret'[p].versions) >= Seen(p, op'[p].name).listed
       /\ \A p, q \in Procs :
            (p # q /\ op'[p].name = op'[q].name /\ Wrote(p)' /\ Wrote(q)')
            => ret'[p].config.Version # ret'[q].config.Version
      ]_vars

\* p1 has read version 2 and then version 3, written by p2 in between
C19_Witness ==
    /\ Returned("p1", "GetConfig") /\ ~op["p1"].hasVersion
    /\ ret["p1"].config.Version = 3
    /\ Seen("p1", "a").latest = 2 /\ Seen("p1", "a").listed = 1
    /\ Returned("p2", "UpdateConfig") /\ ret["p2"].config.Version = 3

\* an object with exactly max_limit and enabled, the first a number of
\* integral value, the second a boolean
PassesPayment(d) ==
    /\ d.kind = "map"
    /\ DOMAIN d.val = {"max_limit", "enabled"}
    /\ \/ d.val["max_limit"].kind = "int"
       \/ d.val["max_limit"].kind = "float" /\ d.val["max_limit"].val % 10 = 0
    /\ d.val["enabled"].kind = "bool"

\* C20: Validate("payment_config", data) returns nil exactly when data is an
\* object with an integer max_limit, a boolean enabled and no other field;
\* and a CreateConfig of that type reaches the store exactly with such data.
C20_PaymentSchema ==
    [][\A p \in Procs :
          /\ (Starts(p) /\ op'[p].kind = "Validate" /\ op'[p].type = "payment_config")
             => ((ret'[p].err = NoErr) <=> PassesPayment(op'[p].data))
          /\ (Starts(p) /\ op'[p].kind = "CreateConfig"
                /\ op'[p].type = "payment_config")
             => /\ (call'[p] = "Create") <=> PassesPayment(op'[p].data)
                /\ ~PassesPayment(op'[p].data) =>
                      ret'[p].err = "SchemaValidationError"
      ]_vars

\* 1000.5 for max_limit was refused
C20_Witness ==
    /\ pc["p1"] = "idle" /\ op["p1"].kind = "Validate"
    /\ op["p1"].data = MapV([max_limit |-> FloatV(10005), enabled |-> BoolV(TRUE)])
    /\ ret["p1"].err = "error"
    /\ "a" \in DOMAIN configs /\ configs["a"].Version = 2

(***************************************************************************)
(* The boundary layer (package handlers).  A handler binds the request,    *)
(* calls the service and writes one response: a status and, on failure, a  *)
(* models.ErrorResponse.  Texts are tuples of their parts.                 *)
(***************************************************************************)
Handlers == {"CreateConfig", "GetConfig", "UpdateConfig", "RollbackConfig", "ListVersions"}

\* err.Error() for the error types of package models; an error of any other
\* type gives its own text
ErrorString(r) ==
    CASE r.err = "ValidationError" -> r.msg
      [] r.err = "ConfigNotFoundError" -> <<"configuration not found: ">>
      [] r.err = "ConfigExistsError" -> <<"configuration already exists: ">>
      [] r.err = "VersionNotFoundError" -> <<"version not found">>
      [] r.err = "SchemaValidationError" -> <<"schema validation failed: ">>
      [] OTHER -> r.msg

handleServiceErrorExistsAsBadRequest(r) ==
    CASE r.err \in {"ValidationError", "ConfigExistsError"} ->
            [status |-> 400, Error |-> ErrorString(r), Details |-> <<>>]
      [] r.err \in {"ConfigNotFoundError", "VersionNotFoundError"} ->
            [status |-> 404, Error |-> ErrorString(r), Details |-> <<>>]
      [] r.err = "SchemaValidationError" ->
            [status |-> 400, Error |-> <<"Schema validation failed">>,
             Details |-> <<"e.Details">>]
      [] OTHER ->
            [status |-> 500, Error |-> <<"Internal server error">>,
             Details |-> ErrorString(r)]

\* the type switch of handleServiceError
handleServiceError(r) ==
    CASE r.err = "ValidationError" ->
            [status |-> 400, Error |-> ErrorString(r), Details |-> <<>>]
      [] r.err \in {"ConfigNotFoundError", "VersionNotFoundError"} ->
            [status |-> 404, Error |-> ErrorString(r), Details |-> <<>>]
      [] r.err = "ConfigExistsError" ->
            [status |-> 409, Error |-> ErrorString(r), Details |-> <<>>]
      [] r.err = "SchemaValidationError" ->
            [status |-> 400, Error |-> <<"Schema validation failed">>,
             Details |-> <<"e.Details">>]
      [] OTHER ->
            [status |-> 500, Error |-> <<"Internal server error">>,
             Details |-> ErrorString(r)]

\* c.JSON(http.StatusCreated, config) in CreateConfig, http.StatusOK elsewhere
Success(kind) ==
    [status |-> IF kind = "CreateConfig" THEN 201 ELSE 200, Error |-> <<>>, Details |-> <<>>]

\* the handler's last step: the service has returned, the response is written
Respond(p) ==
    /\ pc[p] = "idle"
    /\ op[p].kind \in Handlers
    /\ ret[p].err # "none"
    /\ resp[p] = NoResp
    /\ resp' = [resp EXCEPT ![p] = IF ret[p].err = NoErr THEN Success(op[p].kind)
                                   ELSE handleServiceError(ret[p])]
    /\ UNCHANGED <<configs, versions, schemas, mu, arrs, now, pc, op, call, cfg, tmp, ret,
                   aliased, hist, seen>>

\* a goroutine of the server takes its next request after it has answered
Answered(p) == op[p].kind \in Handlers => resp[p] # NoResp

\* a handler that answers without calling the service
Answer(p, kind, r, response) ==
    /\ pc[p] = "idle"
    /\ Answered(p)
    /\ op' = [op EXCEPT ![p] = [NoOp EXCEPT !.kind = kind]]
    /\ ret' = [ret EXCEPT ![p] = r]
    /\ resp' = [resp EXCEPT ![p] = response]
    /\ UNCHANGED <<configs, versions, schemas, mu, arrs, now, pc, call, cfg, tmp,
                   aliased, hist, seen>>

\* c.ShouldBindJSON(&req) fails: the body is not a JSON document of the
\* request's shape
BindFails(p, kind) ==
    Answer(p, kind, NoRet,
           [status |-> 400, Error |-> <<"Invalid request format">>,
            Details |-> <<"err.Error()">>])

\* GetConfig with a version parameter that is not a positive integer
\* (strconv.Atoi fails or v < 1)
BadVersion(p) ==
    Answer(p, "GetConfig", NoRet,
           [status |-> 400, Error |-> <<"Invalid version parameter">>,
            Details |-> <<"version must be a positive integer">>])

\* the text an internal failure carries (an error's Error(), a panic's value)
InternalText == <<"internal failure text">>

\* the service hands the handler an error of none of the types of package
\* models: handleServiceError is applied to it as it is to any other error
UntypedError(p, kind) ==
    /\ pc[p] = "idle"
    /\ Answered(p)
    /\ op' = [op EXCEPT ![p] = [NoOp EXCEPT !.kind = kind]]
    /\ ret' = [ret EXCEPT ![p] = [Fail("error", "").ret EXCEPT !.msg = InternalText]]
    /\ resp' = [resp EXCEPT ![p] = NoResp]
    /\ UNCHANGED <<configs, versions, schemas, mu, arrs, now, pc, call, cfg, tmp,
                   aliased, hist, seen>>

\* a panic below RecoveryMiddleware: recover() gives the panic value and the
\* deferred function writes the response
RecoveryMiddleware(p, kind) ==
    Answer(p, kind, [NoRet EXCEPT !.err = "panic", !.msg = InternalText],
           [status |-> 500, Error |-> <<"Internal server error">>,
            Details |-> <<"%v">> \o InternalText])

\* the routes of SetupRouter; a path's :name is never empty
Routes(p) ==
    \/ \E n \in {"", "a"}, t \in {"", "payment_config", "custom_config"},
          d \in {Pay1, PayMissing, NilData} : StartCreateConfig(p, n, t, d)
    \/ StartGetConfig(p, "a", FALSE, 0)
    \/ \E v \in 1..2 : StartGetConfig(p, "a", TRUE, v)
    \/ BadVersion(p)
    \/ \E d \in {Pay2, PayMissing, NilData} : StartUpdateConfig(p, "a", d)
    \/ \E v \in 0..2 : StartRollbackConfig(p, "a", v)
    \/ StartListVersions(p, "a")
    \/ \E kind \in {"CreateConfig", "UpdateConfig", "RollbackConfig"} : BindFails(p, kind)

\* SpecHttp: one goroutine of the server, request after request
NextHttp ==
    \E p \in {"p1"} :
        \/ Answered(p) /\ Routes(p)
        \/ Repo(p)
        \/ Respond(p)
        \/ \E kind \in Handlers : UntypedError(p, kind)
        \/ \E kind \in Handlers : RecoveryMiddleware(p, kind)

SpecHttp == Init /\ [][NextHttp]_vars

\* C21: whenever a handler has written its response, the status is the one
\* the outcome's kind has in the table: 201 for a successful create, 200 for
\* any other success, 400 for request and schema validation failures (those
\* of the service and those the handler finds itself), 404 for a missing
\* configuration or version, 409 for an existing name, 500 for anything else;
\* the status is a function of the kind alone
StatusTable(kind, err) ==
    CASE err = NoErr -> IF kind = "CreateConfig" THEN 201 ELSE 200
      [] err \in {"none", "ValidationError", "SchemaValidationError"} -> 400
      [] err \in {"ConfigNotFoundError", "VersionNotFoundError"} -> 404
      [] err = "ConfigExistsError" -> 409
      [] OTHER -> 500

C21_StatusMapping ==
    \A p \in Procs :
        resp[p] # NoResp => resp[p].status = StatusTable(op[p].kind, ret[p].err)

C21_Witness ==
    /\ resp["p1"].status = 409
    /\ ret["p1"].err = "ConfigExistsError"
    /\ "a" \in DOMAIN configs

\* C27: a response written for an error of no known type or for a recovered
\* panic has status 500, the generic internal-error kind, and no part of the
\* error's or the panic's text in it
C27_NoInternalState ==
    \A p \in Procs :
        (resp[p] # NoResp /\ ret[p].err \in {"error", "panic"})
          => /\ resp[p].status = 500
             /\ resp[p].Error = <<"Internal server error">>
             /\ \A i \in DOMAIN resp[p].Details, j \in DOMAIN InternalText :
                    resp[p].Details[i] # InternalText[j]

(***************************************************************************)
(* The store called directly, as repository_test.go calls it: Update with  *)
(* a Config whose fields the caller chose.                                 *)
(***************************************************************************)
StartUpdate(p, name, type, data) ==
    /\ Room(name)
    /\ Begin(p, [NoOp EXCEPT !.kind = "Update", !.name = name, !.type = type,
                             !.data = data],
             Goto("Update", [NoConfig EXCEPT !.Name = name, !.Type = type, !.Data = data],
                  NoVersion))

\* SpecStore: one caller of the store; configurations come into being through
\* the service, Update is called with either registered type
NextStore ==
    \/ \E p \in {"p1"} :
        \/ StartCreateConfig(p, "a", "payment_config", Pay1)
        \/ \E t \in {"payment_config", "custom_config"}, d \in {Pay1, Pay2} :
              StartUpdate(p, "a", t, d)
        \/ StartGetConfig(p, "a", FALSE, 0)
        \/ StartGetConfig(p, "a", TRUE, 1)
        \/ StartListVersions(p, "a")
        \/ Repo(p)
    \/ Tick

SpecStore == Init /\ [][NextStore]_vars

\* C22: a step of Update that assigns r.configs[name] leaves the stored type
\* of name as it was, whatever Type the caller's Config holds
C22_TypeCarriedOver ==
    [][\A p \in Procs :
          (pc[p] = "store" /\ call[p] = "Update" /\ configs' # configs)
            => configs'[cfg[p].Name].Type = configs[cfg[p].Name].Type]_vars

\* C23: an Update of the store that succeeds on a name at version v stamps
\* the caller's Config at the time of the write and returns it with version
\* v + 1, the data passed in, the CreatedAt of revision 1 and that stamp as
\* UpdatedAt (also the new revision's stamp); a Get that follows returns
\* the version and data of that write
C23_UpdateResult ==
    [][\A p \in Procs :
          /\ (UpdateBody(p) /\ op[p].kind = "Update" /\ pc'[p] = "store")
                => cfg'[p].UpdatedAt = now
          /\ (UpdateCommit(p) /\ op[p].kind = "Update")
                => /\ ret'[p].err = NoErr
                   /\ ret'[p].config.Version = Len(versions[op[p].name]) + 1
                   /\ ret'[p].config.Data = op[p].data
                   /\ ret'[p].config.CreatedAt = versions[op[p].name][1].CreatedAt
                   /\ ret'[p].config.UpdatedAt = cfg[p].UpdatedAt
                   /\ ret'[p].config.UpdatedAt >= ret'[p].config.CreatedAt
                   /\ versions'[op[p].name][ret'[p].config.Version].CreatedAt
                        = ret'[p].config.UpdatedAt
          /\ (GetBody(p) /\ ~op[p].hasVersion /\ op[p].name \in DOMAIN hist)
                => LET last == hist[op[p].name][Len(hist[op[p].name])]
                   IN /\ ret'[p].err = NoErr
                      /\ ret'[p].config.Version = last.version
                      /\ ret'[p].config.Data = last.data
      ]_vars

C23_Witness ==
    /\ Returned("p1", "GetConfig") /\ ~op["p1"].hasVersion
    /\ "a" \in DOMAIN hist /\ hist["a"][Len(hist["a"])].kind = "Update"
    /\ ret["p1"].config.Version = 2 /\ ret["p1"].config.Data = Pay2
    /\ ret["p1"].config.CreatedAt = 1 /\ ret["p1"].config.UpdatedAt = 2

\* C24: ListVersions on a name returns one entry per successful write on the
\* name since it was created, in commit order: entry i has version i and the
\* data the i-th write supplied (the create, then each update or rollback);
\* GetVersion(name, i) returns the data of that same i-th write
C24_HistoryFidelity ==
    [][\A p \in Procs :
          /\ (ListVersionsBody(p) /\ op[p].name \in DOMAIN versions)
                => /\ ret'[p].err = NoErr
                   /\ Len(ret'[p].versions) = Len(hist[op[p].name])
                   /\ hist[op[p].name][1].kind = "CreateConfig"
                   /\ \A i \in 1..Len(ret'[p].versions) :
                         /\ ret'[p].versions[i].Version = i
                         /\ ret'[p].versions[i].Data = hist[op[p].name][i].data
          /\ (GetVersionBody(p) /\ op[p].name \in DOMAIN versions
                /\ op[p].version \in 1..Len(versions[op[p].name]))
                => /\ tmp'[p].Version = op[p].version
                   /\ tmp'[p].Data = hist[op[p].name][op[p].version].data
                   /\ tmp'[p].Data = ListVersionsResult(op[p].name).versions[op[p].version].Data
      ]_vars

C24_Witness ==
    /\ Returned("p1", "ListVersions")
    /\ Len(ret["p1"].versions) = 3
    /\ ret["p1"].versions[1].Data = Pay1
    /\ ret["p1"].versions[2].Data = Pay2
    /\ ret["p1"].versions[3].Data = Pay1
    /\ "a" \in DOMAIN hist /\ Len(hist["a"]) = 3
    /\ hist["a"][2].kind = "UpdateConfig" /\ hist["a"][3].kind = "RollbackConfig"

(***************************************************************************)
(* The validator's registry called directly, as TestRegisterSchema does.   *)
(***************************************************************************)
\* the names the "type" keyword admits
JsonTypes == {"array", "boolean", "integer", "null", "number", "object", "string"}

\* gojsonschema.NewSchema returns no error: every "type" is a known name
Compiles(schema) == \A k \in DOMAIN schema.props : schema.props[k] \in JsonTypes

\* a definition that does not compile: "strng" is no type
BadSchema == [props |-> [name |-> "strng"], required |-> {"name"}, additional |-> TRUE]

\* (mutant) a type that has a schema keeps it
StartRegisterSchemaKeepsFirst(p, configType, schema) ==
    /\ pc[p] = "idle"
    /\ op' = [op EXCEPT ![p] = [NoOp EXCEPT !.kind = "RegisterSchema",
                                            !.type = configType]]
    /\ SetProc(p, IF Compiles(schema) THEN Done(NoErr, "", NoConfig, NoVersion, <<>>)
                  ELSE Fail("error", ""))
    /\ schemas' = IF Compiles(schema) /\ configType \notin DOMAIN schemas
                  THEN Put(schemas, configType, schema) ELSE schemas
    /\ aliased' = [aliased EXCEPT ![p] = FALSE]
    /\ resp' = [resp EXCEPT ![p] = NoResp]
    /\ UNCHANGED <<configs, versions, mu, arrs, now, hist, seen>>

\* a direct call of Validator.RegisterSchema: nil or an error
StartRegisterSchema(p, configType, schema) ==
    /\ pc[p] = "idle"
    /\ op' = [op EXCEPT ![p] = [NoOp EXCEPT !.kind = "RegisterSchema",
                                            !.type = configType]]
    /\ SetProc(p, IF Compiles(schema) THEN Done(NoErr, "", NoConfig, NoVersion, <<>>)
                  ELSE Fail("error", ""))
    /\ schemas' = IF Compiles(schema) THEN Put(schemas, configType, schema) ELSE schemas
    /\ aliased' = [aliased EXCEPT ![p] = FALSE]
    /\ resp' = [resp EXCEPT ![p] = NoResp]
    /\ UNCHANGED <<configs, versions, mu, arrs, now, hist, seen>>

RegistryTypes == {"payment_config", "custom_config"}
RegistrySchemas == {PaymentSchema, PaymentSchemaV2, CustomSchema, BadSchema}
RegistryDocs == {Pay1, PayV2, MapV([name |-> StrV("test")]), MapV([name |-> IntV(123)])}

\* SpecRegistry: one caller registers definitions and validates documents
NextRegistry ==
    \E p \in {"p1"} :
        \/ \E t \in RegistryTypes, s \in RegistrySchemas : StartRegisterSchema(p, t, s)
        \/ \E t \in RegistryTypes, d \in RegistryDocs : StartValidate(p, t, d)

SpecRegistry == Init /\ [][NextRegistry]_vars

\* C25: a RegisterSchema(type, definition) whose definition compiles returns
\* nil, puts that schema under type in place of any earlier one and leaves
\* every other type's schema as it was; after it HasSchema(type) holds and
\* Validate(type, data) accepts exactly what the new schema accepts.  One
\* whose definition does not compile returns an error and leaves the
\* registry as it was
C25_RegisterSchema ==
    [][\A p \in Procs, t \in RegistryTypes, s \in RegistrySchemas :
          StartRegisterSchema(p, t, s) =>
             IF Compiles(s)
             THEN /\ ret'[p].err = NoErr
                  /\ DOMAIN schemas' = DOMAIN schemas \cup {t}
                  /\ schemas'[t] = s
                  /\ \A u \in DOMAIN schemas \ {t} : schemas'[u] = schemas[u]
                  /\ HasSchema(t)'
                  /\ \A d \in RegistryDocs : Validate(t, d)' <=> SchemaAccepts(s, d)
             ELSE /\ ret'[p].err \notin {NoErr, "none"}
                  /\ schemas' = schemas
      ]_vars

C25_Witness ==
    /\ Returned("p1", "Validate")
    /\ op["p1"].type = "payment_config" /\ op["p1"].data = PayV2
    /\ schemas["payment_config"] = PaymentSchemaV2
    /\ "custom_config" \in DOMAIN schemas /\ schemas["custom_config"] = CustomSchema

\* C26: Validate against payment_config returns an error for every document
\* whose max_limit is held as a floating-point value, of integral value
\* (1000.0) or not (1000.5)
C26_StrictInteger ==
    \A p \in Procs :
        (/\ pc[p] = "idle" /\ op[p].kind = "Validate"
         /\ op[p].type = "payment_config"
         /\ op[p].data.kind = "map"
         /\ "max_limit" \in DOMAIN op[p].data.val
         /\ op[p].data.val["max_limit"].kind = "float")
          => ret[p].err # NoErr

\* C28: whenever no write is in progress, r.configs and r.versions have the
\* same names, so for every name Exists, Get, ListVersions and
\* GetVersion(name, 1) succeed together or fail together; and the data of
\* the latest record of a name is the data of its highest revision
C28_MapsAgree ==
    Quiet =>
        /\ DOMAIN configs = DOMAIN versions
        /\ \A n \in Names \cup {"a", "b"} :
              /\ ExistsResult(n) <=> (GetResult(n).err = NoErr)
              /\ ExistsResult(n) <=> (ListVersionsResult(n).err = NoErr)
              /\ ExistsResult(n) <=> (GetVersionResult(n, 1).err = NoErr)
        /\ \A n \in DOMAIN configs :
              /\ Len(versions[n]) >= 1
              /\ Deref(configs[n].Data) = Deref(versions[n][Len(versions[n])].Data)

\* C29: the service returns the error of the first check that fails, in
\* this order.  CreateConfig: name, type, data present; type registered;
\* data valid against the schema; only then the store, which alone reports
\* an existing name.  UpdateConfig: name, then data present; only then the
\* store.  RollbackConfig: name, then version >= 1; only then the store.
\* A call that fails a check returns in the step it starts, before any
\* repository call
C29_CheckOrder ==
    [][\A p \in Procs :
          /\ Starts(p) =>
                LET o == op'[p]
                    r == ret'[p]
                    Rejects(field) == /\ pc'[p] = "idle"
                                      /\ r.err = "ValidationError"
                                      /\ r.field = field
                    Calls(method) == pc'[p] = "lock" /\ call'[p] = method
                IN /\ o.kind = "CreateConfig" =>
                         IF o.name = "" THEN Rejects("name")
                         ELSE IF o.type = "" THEN Rejects("type")
                         ELSE IF o.data = NilData THEN Rejects("data")
                         ELSE IF o.type \notin DOMAIN schemas THEN Rejects("type")
                         ELSE IF ~SchemaAccepts(schemas[o.type], o.data)
                         THEN pc'[p] = "idle" /\ r.err = "SchemaValidationError"
                         ELSE Calls("Create")
                   /\ o.kind = "UpdateConfig" =>
                         IF o.name = "" THEN Rejects("name")
                         ELSE IF o.data = NilData THEN Rejects("data")
                         ELSE Calls("Get")
                   /\ o.kind = "RollbackConfig" =>
                         IF o.name = "" THEN Rejects("name")
                         ELSE IF o.version < 1 THEN Rejects("version")
                         ELSE Calls("GetVersion")
          /\ (Ends(p) /\ ret'[p].err \in {"ConfigExistsError", "ConfigNotFoundError",
                                           "VersionNotFoundError"})
                => pc[p] = "body"
      ]_vars

\* a create of an existing name with data that fails the schema
C29_Witness ==
    /\ "a" \in DOMAIN configs
    /\ pc["p1"] = "idle" /\ op["p1"].kind = "CreateConfig"
    /\ op["p1"].name = "a" /\ op["p1"].data = PayMissing
    /\ ret["p1"].err = "SchemaValidationError"

\* SpecWrite: two goroutines update and roll back one name concurrently,
\* with two different documents; nothing clears the store
NextWrite ==
    \/ \E p \in Procs :
        \/ StartCreateConfig(p, "a", "payment_config", Pay1)
        \/ \E d \in {Pay1, Pay2} : StartUpdateConfig(p, "a", d)
        \/ \E v \in {1, 2} : StartRollbackConfig(p, "a", v)
        \/ Repo(p)
    \/ StartListVersions("p1", "a")

SpecWrite == Init /\ [][NextWrite]_vars

\* what an UpdateConfig or RollbackConfig submits: the request's data, or
\* the data of the revision the request names
Submitted(p) ==
    IF op[p].kind = "RollbackConfig" THEN versions[op[p].name][op[p].version].Data
    ELSE op[p].data

\* C30: when an UpdateConfig or RollbackConfig commits, it returns nil and a
\* version v that is one more than the number of revisions, revision v is
\* appended with the data this call submitted (for a rollback the data of
\* its target revision, which that revision still holds), GetVersion(name, v)
\* gives that data, and v differs from the version of every write committed
\* before and from the version any other call has returned
C30_OwnRevision ==
    [][\A p \in Procs :
          (UpdateCommit(p) /\ op[p].kind \in {"UpdateConfig", "RollbackConfig"})
            => LET n == op[p].name
                   v == ret'[p].config.Version
               IN /\ ret'[p].err = NoErr
                  /\ v = Len(versions[n]) + 1
                  /\ Len(versions'[n]) = v
                  /\ ret'[p].config.Data = Submitted(p)
                  /\ versions'[n][v].Version = v
                  /\ versions'[n][v].Data = Submitted(p)
                  /\ GetVersionResult(op[p].name, Len(versions[op[p].name]))'.version.Data
                        = Submitted(p)
                  /\ \A i \in 1..Len(hist[n]) : hist[n][i].version # v
                  /\ \A q \in Procs \ {p} :
                        (Returned(q, "UpdateConfig") \/ Returned(q, "RollbackConfig"))
                          => ret[q].config.Version # v
      ]_vars

\* p2's update committed Pay2 as version 2 and p1's rollback to 1 committed
\* Pay1 as version 3
C30_Witness ==
    /\ Returned("p1", "RollbackConfig") /\ Returned("p2", "UpdateConfig")
    /\ ret["p1"].config.Version = 3 /\ ret["p2"].config.Version = 2
    /\ versions["a"][3].Data = Pay1 /\ versions["a"][2].Data = Pay2
    /\ op["p2"].data = Pay2

\* SpecGet: p1 reads one name, with and without a version, while p2
\* creates, updates and rolls it back and the clock advances
NextGet ==
    \/ StartGetConfig("p1", "a", FALSE, 0)
    \/ \E v \in 1..2 : StartGetConfig("p1", "a", TRUE, v)
    \/ StartListVersions("p1", "a")
    \/ StartCreateConfig("p2", "a", "payment_config", Pay1)
    \/ \E d \in {Pay1, Pay2} : StartUpdateConfig("p2", "a", d)
    \/ StartRollbackConfig("p2", "a", 1)
    \/ \E p \in Procs : Repo(p)
    \/ Tick

SpecGet == Init /\ [][NextGet]_vars

\* GetConfig(name, version) run in one piece on the store as it is: the two
\* reads of GetConfig with nothing between them
AtomicGetConfig(name, version) ==
    LET v == GetVersionResult(name, version)
        c == GetResult(name)
    IN IF v.err # NoErr THEN [err |-> v.err, config |-> NoConfig]
       ELSE IF c.err # NoErr THEN [err |-> c.err, config |-> NoConfig]
       ELSE [err |-> NoErr,
             config |-> [Name |-> name, Type |-> c.config.Type,
                         Version |-> v.version.Version, Data |-> v.version.Data,
                         CreatedAt |-> c.config.CreatedAt,
                         UpdatedAt |-> v.version.CreatedAt]]

\* C31: with no Clear, a GetConfig(name, version) returns, in the step it
\* returns, what the same call run in one piece on the store of that moment
\* returns, whatever CreateConfig, UpdateConfig and RollbackConfig did
\* between its two reads; and no step changes the type or the created_at of
\* a name that exists
C31_GetConfigAtomic ==
    [][/\ \A p \in Procs :
            (Ends(p) /\ op[p].kind = "GetConfig" /\ op[p].hasVersion /\ pc[p] = "body")
              => /\ ret'[p].err = AtomicGetConfig(op[p].name, op[p].version).err
                 /\ ret'[p].config = AtomicGetConfig(op[p].name, op[p].version).config
       /\ \A n \in DOMAIN configs :
            /\ n \in DOMAIN configs'
            /\ configs'[n].Type = configs[n].Type
            /\ configs'[n].CreatedAt = configs[n].CreatedAt
      ]_vars

\* p1 has read revision 1 and not yet the record; p2 is inside an Update,
\* at a later time than the create
C31_Witness ==
    /\ op["p1"].kind = "GetConfig" /\ op["p1"].hasVersion
    /\ call["p1"] = "Get" /\ pc["p1"] = "lock" /\ tmp["p1"].Version = 1
    /\ call["p2"] = "Update" /\ pc["p2"] = "commit"
    /\ configs["a"].Version = 2 /\ configs["a"].UpdatedAt = 2
    /\ configs["a"].CreatedAt = 1

\* SpecClear: p1 updates, rolls back and reads one name while p2 clears the
\* store and creates the name anew, with one document or the other
NextClear ==
    \/ StartUpdateConfig("p1", "a", Pay2)
    \/ StartRollbackConfig("p1", "a", 1)
    \/ StartGetConfig("p1", "a", TRUE, 1)
    \/ StartListVersions("p1", "a")
    \/ \E d \in {Pay1, Pay2} : StartCreateConfig("p2", "a", "payment_config", d)
    \/ Administer("p2")
    \/ \E p \in Procs : Repo(p)

SpecClear == Init /\ [][NextClear]_vars

\* C32: even when a Clear and a new Create of the name run between a
\* service operation's reads and its write, a RollbackConfig(name, k) that
\* commits appends the data revision k holds in the sequence it appends to,
\* an UpdateConfig stores the type the record it replaces has, and a
\* GetConfig(name, v) that returns gives the data of revision v of the
\* record whose type and created_at it gives
C32_OneIncarnation ==
    [][\A p \in Procs :
          /\ (UpdateCommit(p) /\ op[p].kind = "RollbackConfig")
                => /\ op[p].version \in 1..Len(versions[op[p].name])
                   /\ versions'[op[p].name][Len(versions'[op[p].name])].Data
                        = versions[op[p].name][op[p].version].Data
          /\ (UpdateStore(p) /\ op[p].kind = "UpdateConfig")
                => configs'[op[p].name].Type = configs[op[p].name].Type
          /\ (GetBody(p) /\ op[p].kind = "GetConfig" /\ op[p].hasVersion
                /\ ret'[p].err = NoErr)
                => /\ op[p].version \in 1..Len(versions[op[p].name])
                   /\ ret'[p].config.Data = versions[op[p].name][op[p].version].Data
      ]_vars

\* SpecValid: two goroutines create, update and roll back one name with
\* documents that pass the schema and one that does not; the registry stays
\* as NewValidator made it
NextValid ==
    \/ \E p \in Procs :
        \/ \E d \in {Pay1, PayMissing} : StartCreateConfig(p, "a", "payment_config", d)
        \/ \E d \in {Pay2, PayMissing} : StartUpdateConfig(p, "a", d)
        \/ \E v \in {1, 2} : StartRollbackConfig(p, "a", v)
        \/ Repo(p)
    \/ StartListVersions("p1", "a")

SpecValid == Init /\ [][NextValid]_vars

\* C33: with the registry left as it was at start-up, in every state every
\* configuration has a registered type and every revision of it holds data
\* that the schema registered for that type accepts
C33_RevisionsValid ==
    /\ schemas = NewValidator
    /\ \A n \in DOMAIN configs :
          /\ HasSchema(configs[n].Type)
          /\ n \in DOMAIN versions =>
                \A i \in 1..Len(versions[n]) :
                    Validate(configs[n].Type, versions[n][i].Data)

\* an update with a document lacking a field was refused while the other
\* goroutine's writes went through
C33_Witness ==
    /\ pc["p1"] = "idle" /\ op["p1"].kind = "UpdateConfig"
    /\ op["p1"].data = PayMissing /\ ret["p1"].err = "SchemaValidationError"
    /\ Returned("p2", "RollbackConfig")
    /\ Len(versions["a"]) = 3 /\ versions["a"][2].Data = Pay2

(***************************************************************************)
(* Progress.  The scheduler runs every goroutine that can take a step, and *)
(* sync.RWMutex hands the lock to a goroutine that keeps asking for it: a  *)
(* pending Lock holds back new readers, and Unlock lets the readers that   *)
(* wait go first.                                                          *)
(***************************************************************************)
\* the steps a repository method takes once it holds the lock
Inside(p) ==
    \/ CreateBody(p) \/ CreateStore(p) \/ CreateCommit(p)
    \/ UpdateBody(p) \/ UpdateStore(p) \/ UpdateCommit(p)
    \/ GetBody(p) \/ GetVersionBody(p) \/ ListVersionsBody(p)
    \/ ExistsBody(p) \/ ClearBody(p) \/ ClearCommit(p)

NextLive ==
    \/ StartCreateConfig("p1", "a", "payment_config", Pay1)
    \/ StartRollbackConfig("p1", "a", 1)
    \/ StartClear("p1")
    \/ StartGetConfig("p2", "a", TRUE, 1)
    \/ StartListVersions("p2", "a")
    \/ StartExists("p2", "a")
    \/ \E p \in Procs :
        \/ StartUpdateConfig(p, "a", Pay2)
        \/ Lock(p)
        \/ RLock(p)
        \/ Inside(p)

Fairness ==
    \A p \in Procs :
        /\ WF_vars(Inside(p))
        /\ SF_vars(Lock(p))
        /\ SF_vars(RLock(p))

\* SpecLive: a writer and a reader-writer under fair scheduling
SpecLive == Init /\ [][NextLive]_vars /\ Fairness

\* a goroutine holds the lock exactly while it is inside a repository
\* method: the write lock inside Create, Update and Clear, a read lock
\* inside the others; between the repository calls of a service operation
\* and after a return it holds nothing
LockDiscipline ==
    \A p \in Procs :
        /\ mu.w = p <=> (pc[p] \in {"body", "store", "commit"} /\ IsWrite(call[p]))
        /\ p \in mu.r <=> (pc[p] = "body" /\ ~IsWrite(call[p]))

\* C34: the lock discipline holds in every state, and under fair scheduling
\* every operation that was invoked returns
C34_Terminates ==
    /\ []LockDiscipline
    /\ \A p \in Procs : (pc[p] # "idle") ~> (pc[p] = "idle")

\* p1's Update waits for the lock while p2 reads under it
C34_Witness ==
    /\ pc["p1"] = "lock" /\ call["p1"] = "Update"
    /\ pc["p2"] = "body" /\ "p2" \in mu.r

(***************************************************************************)
(* Two names.  p1 works on "a", p2 on "b" and reads "a"; requests that     *)
(* fail (a document without a required field, an Update or a rollback of   *)
(* a name not yet created, a second Create) are among them.                *)
(***************************************************************************)
NextFrame ==
    \/ \E d \in {Pay1, PayMissing} : StartCreateConfig("p1", "a", "payment_config", d)
    \/ StartUpdateConfig("p1", "a", Pay2)
    \/ StartRollbackConfig("p1", "a", 1)
    \/ StartCreateConfig("p2", "b", "payment_config", Pay2)
    \/ \E d \in {Pay1, PayMissing} : StartUpdateConfig("p2", "b", d)
    \/ StartRollbackConfig("p2", "b", 2)
    \/ StartGetConfig("p2", "a", FALSE, 0)
    \/ StartGetConfig("p2", "a", TRUE, 1)
    \/ StartListVersions("p2", "a")
    \/ \E p \in Procs : Repo(p)

SpecFrame == Init /\ [][NextFrame]_vars

\* what the store holds under a name: the latest record and the revisions
Entry(name) ==
    <<IF name \in DOMAIN configs THEN <<configs[name]>> ELSE <<>>,
      IF name \in DOMAIN versions THEN versions[name] ELSE <<>>>>

\* the step is one of p's
Moves(p) == <<pc[p], op[p], call[p], cfg[p], tmp[p], ret[p]>>'
              # <<pc[p], op[p], call[p], cfg[p], tmp[p], ret[p]>>

\* C35: a step of a CreateConfig, UpdateConfig or RollbackConfig of one
\* name, whether the operation succeeds or fails, changes neither the latest
\* record nor the revisions of any other name, and a step of a GetConfig or
\* a ListVersions changes no record and no revision at all
C35_Frame ==
    [][\A p \in Procs :
          Moves(p) =>
            /\ op'[p].kind \in {"CreateConfig", "UpdateConfig", "RollbackConfig"}
                 => \A n \in {"a", "b"} \ {op'[p].name} : Entry(n)' = Entry(n)
            /\ op'[p].kind \in {"GetConfig", "ListVersions"}
                 => UNCHANGED <<configs, versions>>
      ]_vars

\* "b" has two revisions, "a" has been created, updated and rolled back,
\* and a request on "b" has just failed
C35_Witness ==
    /\ "a" \in DOMAIN versions /\ Len(versions["a"]) = 3
    /\ "b" \in DOMAIN versions /\ Len(versions["b"]) = 2
    /\ configs["a"].Data = Pay1 /\ configs["b"].Data = Pay1
    /\ pc["p2"] = "idle" /\ op["p2"].name = "b"
    /\ ret["p2"].err = "SchemaValidationError"

\* the Configuration as the caller reads it: slices looked up in the heap
Read(c) == [c EXCEPT !.Data = Deref(c.Data)]

\* C36: whenever no write is in progress, for every name that exists,
\* GetConfig(name, v) with v the latest version returns the Configuration
\* that GetConfig(name) returns (name, type, version, data, created_at,
\* updated_at), and GetConfig(name, 1) returns updated_at = created_at
C36_LatestByVersion ==
    Quiet =>
        \A n \in DOMAIN configs :
            LET latest == GetResult(n)
                byVersion == AtomicGetConfig(n, latest.config.Version)
                first == AtomicGetConfig(n, 1)
            IN /\ latest.err = NoErr /\ byVersion.err = NoErr /\ first.err = NoErr
               /\ Read(byVersion.config) = Read(latest.config)
               /\ first.config.UpdatedAt = first.config.CreatedAt

\* SpecStamp: two goroutines write one name concurrently while the clock
\* advances
NextStamp ==
    \/ StartCreateConfig("p1", "a", "payment_config", Pay1)
    \/ StartUpdateConfig("p1", "a", Pay2)
    \/ StartUpdateConfig("p2", "a", Pay1)
    \/ StartRollbackConfig("p2", "a", 1)
    \/ \E p \in Procs : Repo(p)
    \/ StartListVersions("p2", "a")
    \/ StartGetConfig("p2", "a", FALSE, 0)
    \/ StartGetConfig("p2", "a", TRUE, 1)
    \/ Tick

SpecStamp == Init /\ [][NextStamp]_vars

\* C37: whenever no write is in progress, the latest record of every name
\* has the created_at of revision 1 and the updated_at of the highest
\* revision; and in every state the timestamps of the revisions of a name
\* do not decrease with the version, whichever goroutines wrote them
C37_Timestamps ==
    /\ Quiet =>
         \A n \in DOMAIN configs :
            /\ n \in DOMAIN versions /\ Len(versions[n]) >= 1
            /\ configs[n].CreatedAt = versions[n][1].CreatedAt
            /\ configs[n].UpdatedAt = versions[n][Len(versions[n])].CreatedAt
    /\ \A n \in DOMAIN versions :
         \A i, j \in 1..Len(versions[n]) :
            i <= j => versions[n][i].CreatedAt <= versions[n][j].CreatedAt

\* revision 2 was written by p2 at a later time than revision 1, and p1's
\* update, started meanwhile, waits for the lock
C37_Witness ==
    /\ Quiet /\ "a" \in DOMAIN versions /\ Len(versions["a"]) = 2
    /\ versions["a"][1].CreatedAt = 1 /\ versions["a"][2].CreatedAt = 2
    /\ configs["a"].CreatedAt = 1 /\ configs["a"].UpdatedAt = 2
    /\ pc["p2"] = "idle" /\ op["p2"].kind = "RollbackConfig" /\ ret["p2"].err = NoErr
    /\ pc["p1"] = "lock" /\ call["p1"] = "Update"

\* SpecWipe: p1 creates two names and updates one; p2 clears the store,
\* creates a name anew and reads (GetConfig, ListVersions, Exists, Stats)
NextWipe ==
    \/ \E n \in {"a", "b"} : StartCreateConfig("p1", n, "payment_config", Pay1)
    \/ StartUpdateConfig("p1", "a", Pay2)
    \/ Administer("p2")
    \/ StartCreateConfig("p2", "a", "payment_config", Pay2)
    \/ Inspect("p2", {"a", "b"}, {1})
    \/ \E p \in Procs : Repo(p) \/ ExistsBody(p) \/ StatsBody(p)

SpecWipe == Init /\ [][NextWipe]_vars

\* the number of revisions ListVersions finds under a name
Listed(name) ==
    IF ListVersionsResult(name).err = NoErr
    THEN Len(ListVersionsResult(name).versions) ELSE 0

\* C38: in the state Clear returns in, for every name Exists is false, Get,
\* GetVersion and ListVersions fail with ConfigNotFoundError and Stats
\* counts 0 configurations and 0 versions; a Create that finds the store
\* empty goes on to store, and a Create that commits returns version 1 and
\* leaves one revision; and whenever Stats returns, total_configs is the
\* number of names for which Exists is true and total_versions the sum of
\* the lengths ListVersions finds
C38_ClearEmpties ==
    [][\A p \in Procs :
          /\ ClearCommit(p) =>
                /\ StatsResult' = <<0, 0>>
                /\ \A n \in {"a", "b"} :
                      /\ ~ExistsResult(n)'
                      /\ GetResult(n)'.err = "ConfigNotFoundError"
                      /\ ListVersionsResult(n)'.err = "ConfigNotFoundError"
                      /\ \A v \in 1..MaxVersion :
                            GetVersionResult(n, v)'.err = "ConfigNotFoundError"
          /\ (CreateBody(p) /\ StatsResult = <<0, 0>>) => pc'[p] = "store"
          /\ CreateCommit(p) =>
                /\ ret'[p].err = NoErr /\ ret'[p].config.Version = 1
                /\ Len(versions'[op[p].name]) = 1
                /\ \A v \in 2..MaxVersion :
                      GetVersionResult(op[p].name, v)'.err = "VersionNotFoundError"
          /\ StatsBody(p) =>
                /\ ret'[p].value[1] = Cardinality({n \in {"a", "b"} : ExistsResult(n)})
                /\ ret'[p].value[2] = Listed("a") + Listed("b")
      ]_vars

\* p1's update had made revision 2 of "a"; p2 has cleared the store since
\* and created "a" anew, as version 1, and "b" is gone
C38_Witness ==
    /\ Returned("p1", "UpdateConfig") /\ ret["p1"].config.Version = 2
    /\ Returned("p2", "CreateConfig") /\ ret["p2"].config.Version = 1
    /\ Quiet /\ DOMAIN configs = {"a"} /\ DOMAIN versions = {"a"}
    /\ configs["a"].Version = 1 /\ Len(versions["a"]) = 1
    /\ StatsResult = <<1, 1>>

================================================================================
